---------------------------- MODULE Spec2Model ----------------------------
(***************************************************************************)
(* A model of Grylloparse's streaming lexer (LexerImpl, lexer.cpp) and of  *)
(* its token channel (BlockingQueue), driven by the lexicon that           *)
(* RegLexData builds for the grammar                                       *)
(*     <ident> := "\w+" ;   <operator> := "[;+]" ;                         *)
(* Buffer positions are 0-based offsets from &buffer[0], as the pointer    *)
(* differences of the code are; buffer[k+1] is the byte at offset k.       *)
(***************************************************************************)
EXTENDS Naturals, Integers, Sequences, FiniteSets, TLC

(***************************************************************************)
(* Bounds of the model.                                                    *)
(***************************************************************************)
\* Longest input stream that is enumerated.
MaxLen == 6
\* getNextToken() calls that are still made after a call reported no token.
MaxExtraCalls == 2
\* Longest word of the streams that hold a word longer than the buffer, and
\* the longest stretch before and after that word.
MaxLong == 7
MaxAround == 2
\* Longest stretch after that word in a stream that is run through start().
MaxAfter == 3
\* Longest input stream of a lexer that is run through start().
MaxAsyncLen == 5
\* Longest input stream of a lexer whose calls are interleaved step by step.
MaxConcLen == 2
\* start() calls that are made on one lexer.
MaxStarts == 2
\* Tokens that the queue is let to receive, and spans that a runner is let
\* to pass: more than any run that ends pushes or passes.
MaxPushed == MaxLen + MaxStarts + 2

(***************************************************************************)
(* Program constants.                                                      *)
(***************************************************************************)
BUFFER_SIZE == 5
TOKEN_END_OF_FILE == -1
TOKEN_GOOD == 0
REFETCH_NEEDED == 1
TOKEN_AT_THE_END == 2
\* LexicToken::END_OF_STREAM_TOKEN, the id of the token that start() pushes
\* last: an id no token rule has.
END_OF_STREAM_TOKEN == -2

\* The bytes of the model: word characters, one operator character, one
\* white space character, one character no token rule accepts, and the
\* '\0' the buffer is filled with.
NUL == "0"
Digits == <<"0", "1", "2", "3", "4", "5", "6", "7", "8", "9">>
Letters == <<"a", "b", "c", "d", "e", "f", "g", "h", "i", "j">>
WordChars == {Letters[i] : i \in 1..Len(Letters)}
OpChars == {";"}
SpaceChars == {" "}
OtherChars == {"#"}
\* The bytes of the streams that are enumerated in full.
Alphabet == {"a"} \cup OpChars \cup SpaceChars \cup OtherChars

Min(a, b) == IF a < b THEN a ELSE b

RECURSIVE SeqsUpTo(_)
\* All streams of at most n bytes.
SeqsUpTo(n) ==
    IF n = 0 THEN {<<>>}
    ELSE LET shorter == SeqsUpTo(n - 1)
         IN shorter \cup {Append(s, c) : s \in {t \in shorter : Len(t) = n - 1}, c \in Alphabet}

(***************************************************************************)
(* The compiled lexicon (RegLexData): the master pattern                   *)
(*     (\w+)|([;+])|(\s+)|(.+)                                             *)
(* as its capture groups in order, and the group -> token id table.        *)
(***************************************************************************)
Groups ==
    << [cls |-> "w",   plus |-> TRUE],
       [cls |-> "op",  plus |-> FALSE],
       [cls |-> "s",   plus |-> TRUE],
       [cls |-> "dot", plus |-> TRUE] >>
tokenTypeIDs == <<1, 2>>
spaceRuleIndex == Len(tokenTypeIDs)
errorRuleIndex == spaceRuleIndex + 1
useFallbackErrorRule == TRUE

\* Whether byte c is in the character class of a group.  '.' matches every
\* byte but a line terminator, and the model's bytes hold none.
ClassHas(cls, c) ==
    CASE cls = "w"   -> c \in WordChars
      [] cls = "op"  -> c \in OpChars
      [] cls = "s"   -> c \in SpaceChars
      [] cls = "dot" -> TRUE

RECURSIVE RunLen(_, _, _, _)
\* Number of consecutive bytes of class cls in buf[p, e).
RunLen(buf, p, e, cls) ==
    IF p < e /\ ClassHas(cls, buf[p + 1])
    THEN 1 + RunLen(buf, p + 1, e, cls)
    ELSE 0

\* Length matched by alternative g when tried at offset p (0: no match).
AltLen(buf, p, e, g) ==
    LET n == RunLen(buf, p, e, Groups[g].cls)
    IN IF Groups[g].plus THEN n ELSE Min(n, 1)

\* The alternatives are tried left to right: the first that matches wins.
FirstAlt(buf, p, e) ==
    LET ok == {g \in 1..Len(Groups) : AltLen(buf, p, e, g) > 0}
    IN IF ok = {} THEN 0 ELSE CHOOSE g \in ok : \A h \in ok : g <= h

\* std::regex_search( first, last, m, fullLanguageRegex ): the leftmost
\* match in buf[first, last).  position is relative to first, and group is
\* the index i of the sub-match m[i] that is not empty.
regex_search(buf, first, last) ==
    LET starts == {p \in first..(last - 1) : FirstAlt(buf, p, last) # 0}
    IN IF starts = {}
       THEN [found |-> FALSE, position |-> 0, length |-> 0, group |-> 0]
       ELSE LET p == CHOOSE q \in starts : \A r \in starts : q <= r
                g == FirstAlt(buf, p, last)
            IN [found |-> TRUE, position |-> p - first,
                length |-> AltLen(buf, p, last, g), group |-> g]

Zeros(n) == [i \in 1..n |-> NUL]

\* memmove into dst at offset 0 of the n bytes of src that start at offset from.
MemMove(dst, src, from, n) ==
    [i \in 1..Len(dst) |-> IF i <= n THEN src[from + i] ELSE dst[i]]

(***************************************************************************)
(* The grammar (gbnf::GbnfData, src/gbnf/src/gbnf.hpp) and its compilation *)
(* to a lexicon (RegLexData, src/Grylloparse/src/reglex.cpp).  Texts are   *)
(* sequences of characters.                                                *)
(*   tagTable      the tags [ID, data], IDs from 1 in order                *)
(*   grammarTable  the rules [ID, options], sorted by ID; an option is     *)
(*                 [children], a child is a token [type, id, data]         *)
(***************************************************************************)
\* GrammarToken::REGEX_STRING and GrammarToken::TAG_ID
REGEX_STRING == "\""
TAG_ID == "<"

\* SpecialTag::TYPE_NON_REGEX and SpecialTag::TYPE_RECURSIVE_REGEX
TYPE_NON_REGEX == 1
TYPE_RECURSIVE_REGEX == 3

\* The set SpecialTags of lines 66-102: the names that are special, and
\* their types.
SpecialTags ==
    {[name |-> "regex_ignore", type |-> TYPE_RECURSIVE_REGEX],
     [name |-> "delim", type |-> TYPE_NON_REGEX],
     [name |-> "ignore", type |-> TYPE_NON_REGEX]}

\* GbnfData::getRule( i ): the index of the rule in the table, from 1; the
\* index after the last rule is end().
lower_bound(table, i) ==
    IF \E k \in 1..Len(table) : table[k].ID >= i
    THEN CHOOSE k \in 1..Len(table) :
             table[k].ID >= i /\ \A j \in 1..(k - 1) : table[j].ID < i
    ELSE Len(table) + 1

getRule(data, i) ==
    IF i < Len(data.grammarTable) /\ data.grammarTable[i + 1].ID = i
    THEN i + 1
    ELSE lower_bound(data.grammarTable, i)

\* std::lower_bound needs the rules that are less than i to come before
\* all the others; the behaviour is undefined on a table where they do not.
Partitioned(table, i) ==
    \A j, k \in 1..Len(table) : (j < k /\ table[k].ID < i) => table[j].ID < i

\* What std::lower_bound can give: on a table that is not partitioned, any
\* iterator of the table.
LowerBounds(table, i) ==
    IF Partitioned(table, i) THEN {lower_bound(table, i)} ELSE 1..(Len(table) + 1)

\* What getRule( i ) can give on a table in any order.
getRuleResults(data, i) ==
    IF i < Len(data.grammarTable) /\ data.grammarTable[i + 1].ID = i
    THEN {i + 1}
    ELSE LowerBounds(data.grammarTable, i)

\* GbnfData::insertRule( rule )
insertRule(data, rule) ==
    [data EXCEPT !.grammarTable = Append(@, rule), !.sorted = FALSE]

\* grammarTable.erase( it ), for the iterator of index k.
erase(table, k) == SubSeq(table, 1, k - 1) \o SubSeq(table, k + 1, Len(table))

\* GbnfData::removeRule( i ), for the iterator it that lower_bound gives
\* when the rule is not found at index i.
removeRule(data, i, it) ==
    IF i < Len(data.grammarTable) /\ data.grammarTable[i + 1].ID = i
    THEN [data EXCEPT !.grammarTable = erase(@, i + 1)]
    ELSE IF it # Len(data.grammarTable) + 1
    THEN [data EXCEPT !.grammarTable = erase(@, it)]
    ELSE data

RECURSIVE SortedByID(_)
\* std::sort of the rules by GrammarRule::operator<.
Inserted(table, rule) ==
    LET k == lower_bound(table, rule.ID + 1)
    IN SubSeq(table, 1, k - 1) \o <<rule>> \o SubSeq(table, k, Len(table))

SortedByID(table) ==
    IF table = <<>> THEN <<>>
    ELSE Inserted(SortedByID(SubSeq(table, 1, Len(table) - 1)), table[Len(table)])

\* GbnfData::sort()
sort(data) ==
    IF data.sorted THEN data
    ELSE [data EXCEPT !.grammarTable = SortedByID(@), !.sorted = TRUE]

RECURSIVE collectRegexStringFromGTokens_priv(_, _, _, _)
RECURSIVE CollectTokens(_, _, _, _, _)
RECURSIVE CollectOptions(_, _, _, _)

\* Lines 150-156: a tag token is resolved through getRule; the result of
\* the nested call is not looked at.
CollectTag(data, st, iter, multi) ==
    IF iter # Len(data.grammarTable) + 1
    THEN collectRegexStringFromGTokens_priv(data, st, data.grammarTable[iter], multi)
    ELSE st

\* Lines 145-157: one token of an option.
CollectToken(data, st, token, multi) ==
    IF token.type = REGEX_STRING THEN [st EXCEPT !.str = @ \o token.data]
    ELSE IF token.type = TAG_ID THEN CollectTag(data, st, getRule(data, token.id), multi)
    ELSE st

\* Lines 144-158: the tokens of an option from the j-th on.
CollectTokens(data, st, tokens, j, multi) ==
    IF j > Len(tokens) THEN st
    ELSE CollectTokens(data, CollectToken(data, st, tokens[j], multi), tokens,
                       j + 1, multi)

\* Lines 135-159: the options of a rule from the k-th on.
CollectOptions(data, st, options, k) ==
    IF k > Len(options) THEN st
    ELSE CollectOptions(data,
             CollectTokens(data, [st EXCEPT !.str = IF k > 1 THEN @ \o <<"|">> ELSE @],
                           options[k].children, 1, Len(options) > 1),
             options, k + 1)

\* Lines 161-167: the group is closed and the rule's ID leaves the stack.
GroupEnd(st, rule) ==
    [str |-> st.str \o <<")">>, idStack |-> st.idStack \ {rule.ID}, ret |-> TRUE]

\* The collector without the test of parentMultiOption at line 125: a rule
\* of one literal pattern is never wrapped.
collectRegexStringIgnoringParent(data, st, rule, parentMultiOption) ==
    IF rule.ID \in st.idStack THEN [st EXCEPT !.ret = FALSE]
    ELSE IF /\ Len(rule.options) = 1
            /\ Len(rule.options[1].children) = 1
            /\ rule.options[1].children[1].type = REGEX_STRING
    THEN [str |-> st.str \o rule.options[1].children[1].data,
          idStack |-> st.idStack \cup {rule.ID}, ret |-> TRUE]
    ELSE GroupEnd(CollectOptions(data,
                      [str |-> st.str \o <<"(", "?", ":">>,
                       idStack |-> st.idStack \cup {rule.ID}, ret |-> TRUE],
                      rule.options, 1),
                  rule)

\* Lines 111-168.  st is [str, idStack, ret]: the text collected so far, the
\* IDs being processed, and the value returned.
collectRegexStringFromGTokens_priv(data, st, rule, parentMultiOption) ==
    IF rule.ID \in st.idStack THEN [st EXCEPT !.ret = FALSE]
    ELSE IF /\ Len(rule.options) = 1
            /\ Len(rule.options[1].children) = 1
            /\ rule.options[1].children[1].type = REGEX_STRING
            /\ ~parentMultiOption
    THEN [str |-> st.str \o rule.options[1].children[1].data,
          idStack |-> st.idStack \cup {rule.ID}, ret |-> TRUE]
    ELSE GroupEnd(CollectOptions(data,
                      [str |-> st.str \o <<"(", "?", ":">>,
                       idStack |-> st.idStack \cup {rule.ID}, ret |-> TRUE],
                      rule.options, 1),
                  rule)

(***************************************************************************)
(* The recursion of collectRegexStringFromGTokens_priv by its parameter    *)
(* recLevel (line 113, passed on as recLevel+1 at line 155), without the   *)
(* text.  t is [idStack, deepest, reentered]: the IDs being processed, the *)
(* greatest recLevel of a call that went past line 120, and whether such a *)
(* call was for a rule of path, the rules whose calls have not returned.   *)
(* A call at level MaxLevel is cut off.                                    *)
(***************************************************************************)
MaxLevel == 5

RECURSIVE ExpandRule(_, _, _, _, _, _)
RECURSIVE ExpandTokens(_, _, _, _, _, _, _)
RECURSIVE ExpandOptions(_, _, _, _, _, _)

\* Lines 150-156.
ExpandTag(data, t, iter, multi, recLevel, path) ==
    IF iter # Len(data.grammarTable) + 1
    THEN ExpandRule(data, t, data.grammarTable[iter], multi, recLevel + 1, path)
    ELSE t

\* Lines 144-158.
ExpandTokens(data, t, tokens, j, multi, recLevel, path) ==
    IF j > Len(tokens) THEN t
    ELSE ExpandTokens(data,
             IF tokens[j].type = TAG_ID
             THEN ExpandTag(data, t, getRule(data, tokens[j].id), multi, recLevel, path)
             ELSE t,
             tokens, j + 1, multi, recLevel, path)

\* Lines 135-159.
ExpandOptions(data, t, options, k, recLevel, path) ==
    IF k > Len(options) THEN t
    ELSE ExpandOptions(data,
             ExpandTokens(data, t, options[k].children, 1, Len(options) > 1,
                          recLevel, path),
             options, k + 1, recLevel, path)

\* The call has passed lines 117-120 for the rule.
Entered(t, rule, recLevel, path) ==
    [idStack |-> t.idStack \cup {rule.ID},
     deepest |-> IF recLevel > t.deepest THEN recLevel ELSE t.deepest,
     reentered |-> t.reentered \/ rule.ID \in path]

\* Line 165.
Left(t, rule) == [t EXCEPT !.idStack = @ \ {rule.ID}]

\* The recursion without the test of lines 117-118.
ExpandRuleUnchecked(data, t, rule, parentMultiOption, recLevel, path) ==
    IF recLevel >= MaxLevel THEN [t EXCEPT !.deepest = MaxLevel]
    ELSE IF /\ Len(rule.options) = 1
            /\ Len(rule.options[1].children) = 1
            /\ rule.options[1].children[1].type = REGEX_STRING
            /\ ~parentMultiOption
    THEN Entered(t, rule, recLevel, path)
    ELSE Left(ExpandOptions(data, Entered(t, rule, recLevel, path), rule.options, 1,
                            recLevel, path \cup {rule.ID}),
              rule)

\* Lines 111-168.
ExpandRule(data, t, rule, parentMultiOption, recLevel, path) ==
    IF rule.ID \in t.idStack THEN t
    ELSE IF recLevel >= MaxLevel THEN [t EXCEPT !.deepest = MaxLevel]
    ELSE IF /\ Len(rule.options) = 1
            /\ Len(rule.options[1].children) = 1
            /\ rule.options[1].children[1].type = REGEX_STRING
            /\ ~parentMultiOption
    THEN Entered(t, rule, recLevel, path)
    ELSE Left(ExpandOptions(data, Entered(t, rule, recLevel, path), rule.options, 1,
                            recLevel, path \cup {rule.ID}),
              rule)

\* Lines 186-197: the IDs of the tags whose names are special, of one type.
SpecTags(gdata, type) ==
    {gdata.tagTable[k].ID : k \in {j \in 1..Len(gdata.tagTable) :
        [name |-> gdata.tagTable[j].data, type |-> type] \in SpecialTags}}

\* Lines 243-277: one rule of the table after its text was collected as r.
\* c is the lexicon under construction; starts is history, the offset in
\* finalRegex of the parenthesis that opens the group of each token type.
RuleResolved(gdata, c, rule, r) ==
    IF ~r.ret THEN [c EXCEPT !.ignoredTags = r.idStack]
    ELSE IF rule.ID \in SpecTags(gdata, TYPE_RECURSIVE_REGEX)
    THEN [c EXCEPT !.ignoredTags = r.idStack,
                   !.useCustomWhitespaces = TRUE,
                   !.regexWhitespaces = r.str]
    ELSE [c EXCEPT !.ignoredTags = r.idStack,
                   !.finalRegex = @ \o <<"(">> \o r.str \o <<")", "|">>,
                   !.tokenTypeIDs = Append(@, rule.ID),
                   !.starts = Append(@, Len(c.finalRegex) + 1)]

RECURSIVE ResolveRules(_, _, _)
\* Lines 241-278: the rules of the table from the k-th on.
ResolveRules(gdata, c, k) ==
    IF k > Len(gdata.grammarTable) THEN c
    ELSE ResolveRules(gdata,
             RuleResolved(gdata, c, gdata.grammarTable[k],
                 collectRegexStringFromGTokens_priv(gdata,
                     [str |-> <<>>, idStack |-> c.ignoredTags, ret |-> TRUE],
                     gdata.grammarTable[k], FALSE)),
             k + 1)

\* Lines 280-299: the white space group and the fallback error group end
\* the master pattern.
Completed(c, ws) ==
    [fullLanguageRegex |-> c.finalRegex \o <<"(">> \o ws \o <<")", "|", "(", ".", "+", ")">>,
     tokenTypeIDs |-> c.tokenTypeIDs,
     useCustomWhitespaces |-> c.useCustomWhitespaces,
     regexWhitespaces |-> c.regexWhitespaces,
     useFallbackErrorRule |-> TRUE,
     spaceRuleIndex |-> Len(c.tokenTypeIDs),
     errorRuleIndex |-> Len(c.tokenTypeIDs) + 1,
     starts |-> c.starts,
     spaceStart |-> Len(c.finalRegex) + 1,
     errorStart |-> Len(c.finalRegex) + Len(ws) + 4,
     threw |-> FALSE]

\* Lines 173-300.
checkAndAssignLexicProperties(c) ==
    Completed(c, IF c.useCustomWhitespaces THEN c.regexWhitespaces ELSE <<"\\", "s", "+">>)

\* Lines 304-306: RegLexData::RegLexData( const gbnf::GbnfData& data ).
RegLexData(gdata) ==
    checkAndAssignLexicProperties(
        ResolveRules(gdata,
            [finalRegex |-> <<>>, ignoredTags |-> {}, tokenTypeIDs |-> <<>>,
             useCustomWhitespaces |-> FALSE, regexWhitespaces |-> <<>>,
             starts |-> <<>>],
            1))

(***************************************************************************)
(* The grammars that are compiled.                                         *)
(***************************************************************************)
RegexToken(text) == [type |-> REGEX_STRING, id |-> 0, data |-> text]
TagToken(id) == [type |-> TAG_ID, id |-> id, data |-> <<>>]
Option(children) == [children |-> children]

\* The grammar of the lexer test (test_lexerimpl.cpp:57-58): <ident> is
\* "\w+" and <operator> is a class of operator characters.
TestGrammar ==
    [tagTable |-> <<[ID |-> 1, data |-> "ident"], [ID |-> 2, data |-> "operator"]>>,
     sorted |-> TRUE,
     grammarTable |->
         <<[ID |-> 1, options |-> <<Option(<<RegexToken(<<"\\", "w", "+">>)>>)>>],
           [ID |-> 2, options |-> <<Option(<<RegexToken(<<"[", ";", "]">>)>>)>>]>>]

\* The names that the tags 1, 2 and 3 of an enumerated grammar can have.
TagNames ==
    <<{"ident"}, {"operator", "delim", "regex_delim"},
      {"number", "regex_ignore", "ignore"}>>

AllTagNames == UNION {TagNames[i] : i \in 1..Len(TagNames)}

\* The literal patterns of the enumerated grammars: one without a group of
\* its own and one with a capturing group.
Patterns == {<<"a", "+">>, <<"(", "b", ")", "+">>}

RegexTokens == {RegexToken(p) : p \in Patterns}
TagTokens == {TagToken(i) : i \in 1..Len(TagNames)}

\* The options of an enumerated rule: one token, a pattern followed by a
\* tag, or two options of one token each; no options stands for a tag that
\* has no rule.
RuleShapes ==
    {<<>>}
    \cup {<<Option(<<t>>)>> : t \in RegexTokens \cup TagTokens}
    \cup {<<Option(<<r, t>>)>> : r \in RegexTokens, t \in TagTokens}
    \cup {<<Option(<<r>>), Option(<<t>>)>> : r \in RegexTokens,
                                             t \in RegexTokens \cup TagTokens}

HasOptions(rule) == rule.options # <<>>

\* The grammar whose tags have the names of names and the options of
\* shapes; the rule table is sorted by ID (GbnfData::sort).
Grammar(names, shapes) ==
    [tagTable |-> [i \in 1..Len(TagNames) |-> [ID |-> i, data |-> names[i]]],
     sorted |-> TRUE,
     grammarTable |-> SelectSeq([i \in 1..Len(TagNames) |->
                                    [ID |-> i, options |-> shapes[i]]],
                                HasOptions)]

\* The threads of the model: two that call start(), one that calls
\* getNextToken().
Producers == {"p1", "p2"}
Consumer == "c"
Threads == Producers \cup {Consumer}

VARIABLES
    rdr,              \* the input stream: [data, pos, eof]
    buffer,           \* LexerImpl::buffer
    bufferPointer,    \* offset of LexerImpl::bufferPointer in buffer
    bufferEnd,        \* offset of LexerImpl::bufferEnd in buffer
    endOfStream,      \* LexerImpl::endOfStream
    running,          \* LexerImpl::running
    useBlockingQueue, \* LexerImpl::useBlockingQueue
    useDedicatedLoopyTokenizer, \* LexerImpl::useDedicatedLoopyTokenizer
    bQueue,           \* the tokens in the BlockingQueue, oldest first
    pc,               \* where each thread is in start() or getNextToken()
    loc,              \* the local variables of the runner of each producer
    calls,            \* history: the outcome of every getNextToken() call
    consumed,         \* history: the spans the scanner has passed, in order
    pushed,           \* history: every token pushed onto the queue, in order
    startCalls,       \* history: the number of start() calls made
    startedAt,        \* history: the number of getNextToken() calls that had
                      \* returned at each start() call
    startThrew,       \* history: an exception has left a start() call
    memFault,         \* history: a memmove wrote past the end of its target
    gdata,            \* the grammar: gbnf::GbnfData
    lexics            \* the lexicon compiled from it: RegLexData

lexVars == <<rdr, buffer, bufferPointer, bufferEnd, endOfStream>>
vars == <<rdr, buffer, bufferPointer, bufferEnd, endOfStream, running,
          useBlockingQueue, useDedicatedLoopyTokenizer, bQueue, pc, loc,
          calls, consumed, pushed, startCalls, startedAt, startThrew,
          memFault, gdata, lexics>>

\* The fields of the lexer that the scanning functions read and write.
\* buffSize is the nominal size of the buffer: BUFFER_SIZE for the lexer of
\* the model's state.
Lex == [rdr |-> rdr, buffer |-> buffer, bufferPointer |-> bufferPointer,
        bufferEnd |-> bufferEnd, endOfStream |-> endOfStream,
        buffSize |-> BUFFER_SIZE]

\* An updateBuffer that does not mark the end of the stream (lines 187-189
\* left out).
updateBufferNoMark(l, start) ==
    IF l.endOfStream THEN [lex |-> l, ret |-> FALSE]
    ELSE IF l.bufferPointer >= l.bufferEnd \/ start # 0
    THEN LET st    == IF start >= Len(l.buffer) THEN 0 ELSE start
             want  == Len(l.buffer) - st
             avail == IF l.rdr.eof THEN 0 ELSE Len(l.rdr.data) - l.rdr.pos
             count == Min(want, avail)
             eof   == l.rdr.eof \/ count < want
             nbuf  == [i \in 1..Len(l.buffer) |->
                          IF i > st /\ i <= st + count
                          THEN l.rdr.data[l.rdr.pos + (i - st)]
                          ELSE l.buffer[i]]
             l1    == [l EXCEPT !.rdr = [data |-> l.rdr.data,
                                          pos |-> l.rdr.pos + count,
                                          eof |-> eof],
                                !.buffer = nbuf]
         IN IF count = 0
            THEN [lex |-> l1, ret |-> FALSE]
            ELSE [lex |-> [l1 EXCEPT !.bufferEnd = st + count,
                                     !.bufferPointer = st],
                  ret |-> TRUE]
    ELSE [lex |-> l, ret |-> TRUE]

(***************************************************************************)
(* bool LexerImpl::updateBuffer( size_t start )                            *)
(***************************************************************************)
updateBuffer(l, start) ==
    IF l.endOfStream THEN [lex |-> l, ret |-> FALSE]
    ELSE IF l.bufferPointer >= l.bufferEnd \/ start # 0
    THEN LET st    == IF start >= Len(l.buffer) THEN 0 ELSE start
             want  == Len(l.buffer) - st
             avail == IF l.rdr.eof THEN 0 ELSE Len(l.rdr.data) - l.rdr.pos
             count == Min(want, avail)
             eof   == l.rdr.eof \/ count < want
             nbuf  == [i \in 1..Len(l.buffer) |->
                          IF i > st /\ i <= st + count
                          THEN l.rdr.data[l.rdr.pos + (i - st)]
                          ELSE l.buffer[i]]
             l1    == [l EXCEPT !.rdr = [data |-> l.rdr.data,
                                          pos |-> l.rdr.pos + count,
                                          eof |-> eof],
                                !.buffer = nbuf,
                                !.endOfStream = eof]
         IN IF count = 0
            THEN [lex |-> l1, ret |-> FALSE]
            ELSE [lex |-> [l1 EXCEPT !.bufferEnd = st + count,
                                     !.bufferPointer = st],
                  ret |-> TRUE]
    ELSE [lex |-> l, ret |-> TRUE]

(***************************************************************************)
(* int LexerImpl::getNextTokenPriv_Regexed( LexerImpl& lex, LexicToken& )  *)
(* The result: ret is the value returned, threw whether an exception left  *)
(* the function instead, tok the token filled in, lex the lexer            *)
(* afterwards, spans the white space and token texts passed, in order, and *)
(* fault whether the copy of the remainder overran its target.             *)
(***************************************************************************)
Result(l, ret, tok, spans, fault) ==
    [lex |-> l, ret |-> ret, threw |-> FALSE, tok |-> tok, spans |-> spans,
     fault |-> fault]

\* LexerImpl::stats (line 88): it is constructed as 0:0, and no code calls
\* updateLineStats, the one function that changes it.
stats == [lineCount |-> 0, posInLine |-> 0]

\* std::to_string of a small number, as characters.
to_string(n) ==
    IF n < 10 THEN <<Digits[n + 1]>> ELSE <<Digits[(n \div 10) + 1], Digits[(n % 10) + 1]>>

\* The message of line 327 and line 557, as characters.
InvalidToken ==
    <<"I", "n", "v", "a", "l", "i", "d", " ", "t", "o", "k", "e", "n", ".">>

\* The message of line 285, as characters.
CantBeMatched ==
    <<"R", "E", "G", "E", "X", " ", "C", "a", "n", "'", "t", " ", "b", "e", " ",
      "m", "a", "t", "c", "h", "e", "d", ".", " ", "M", "a", "y", "b", "e", " ",
      "l", "a", "n", "g", "u", "a", "g", "e", " ", "r", "e", "g", "e", "x", " ",
      "i", "s", " ", "w", "r", "o", "n", "g", ".">>

\* Lines 162-163: what() of the std::runtime_error that is thrown.
what(message) ==
    <<"[">> \o to_string(stats.lineCount) \o <<":">> \o to_string(stats.posInLine)
        \o <<"]", ":", " ">> \o message

\* lex.throwError( message ): the exception leaves the tokenizer as it is.
throwError(l, message, spans) ==
    [lex |-> l, ret |-> TOKEN_GOOD, threw |-> TRUE, tok |-> [id |-> 0, data |-> <<>>],
     spans |-> spans, fault |-> FALSE, what |-> what(message)]

NoToken == [id |-> 0, data |-> <<>>]

\* Lines 330-384: the match m of an ordinary group is a token that ends at
\* tokEnd.
AcceptToken(l, m, bufferWasExtended, spans) ==
    LET tokEnd == l.bufferPointer + m.position + m.length
        tokp   == l.bufferPointer + m.position
        remLen == l.bufferEnd - tokEnd
        data   == SubSeq(l.buffer, tokp + 1, tokp + m.length)
        tok    == [id |-> tokenTypeIDs[m.group], data |-> data]
    IN IF bufferWasExtended
       THEN Result([l EXCEPT !.buffer = MemMove(Zeros(l.buffSize), l.buffer,
                                                 tokEnd, Min(remLen, l.buffSize)),
                             !.bufferPointer = 0,
                             !.bufferEnd = remLen],
                   TOKEN_GOOD, tok, Append(spans, data), remLen > l.buffSize)
       ELSE Result([l EXCEPT !.bufferPointer = tokEnd],
                   TOKEN_GOOD, tok, Append(spans, data), FALSE)

\* A ReBuffer that never grows the buffer (the test of line 410 left out).
ReBufferNoGrow(l, m) ==
    [lex |-> [l EXCEPT !.buffer =
                 IF l.bufferPointer + m.position > 0
                 THEN MemMove(l.buffer, l.buffer, l.bufferPointer + m.position, m.length)
                 ELSE l.buffer],
     extended    |-> FALSE,
     fetchOffset |-> m.length]

\* Lines 400-443: the match m reached bufferEnd before the stream ended.
\* The open token is moved to offset 0, in a buffer grown by BUFFER_SIZE/2
\* when the token is longer than the buffer less BUFFER_SIZE/2.
ReBuffer(l, m) ==
    LET curTokStart == l.bufferPointer + m.position
        extend      == m.length > Len(l.buffer) - (l.buffSize \div 2)
        grown       == Len(l.buffer) + (l.buffSize \div 2)
    IN [lex |-> [l EXCEPT !.buffer =
                    IF extend
                    THEN IF curTokStart > 0
                         THEN MemMove(Zeros(grown), l.buffer, curTokStart, m.length)
                         ELSE l.buffer \o Zeros(l.buffSize \div 2)
                    ELSE IF curTokStart > 0
                         THEN MemMove(l.buffer, l.buffer, curTokStart, m.length)
                         ELSE l.buffer],
        extended    |-> extend,
        fetchOffset |-> m.length]

RECURSIVE RegexedLoop(_, _, _)

\* Lines 445-460: u is what updateBuffer( fetchOffset ) gave.  Without new
\* data the call ends, unless the buffer was extended.
AfterFetch(u, fetchOffset, reBufferNeeded, bufferWasExtended, spans) ==
    IF ~u.ret /\ ~bufferWasExtended
    THEN Result(u.lex, TOKEN_END_OF_FILE, NoToken, spans, FALSE)
    ELSE RegexedLoop([u.lex EXCEPT
                         !.bufferEnd = IF ~u.ret /\ reBufferNeeded
                                       THEN fetchOffset ELSE @,
                         !.bufferPointer = IF reBufferNeeded \/ bufferWasExtended
                                           THEN 0 ELSE @],
                     bufferWasExtended, spans)

\* Lines 400-460 with the open token moved as rb tells.
AfterReBuffer(rb, bufferWasExtended, spans) ==
    AfterFetch(updateBuffer(rb.lex, rb.fetchOffset), rb.fetchOffset, TRUE,
               bufferWasExtended \/ rb.extended, spans)

\* The matching loop without the test of line 309: a match that reaches
\* bufferEnd before the stream has ended is accepted as it is.
MatchedNoHold(l, m, bufferWasExtended, spans) ==
    LET tokEnd == l.bufferPointer + m.position + m.length
    IN IF ~m.found
       THEN IF useFallbackErrorRule
            THEN throwError(l, CantBeMatched, spans)
            ELSE RegexedLoop([l EXCEPT !.bufferPointer = l.bufferEnd],
                             bufferWasExtended, spans)
       ELSE IF m.group - 1 = spaceRuleIndex
       THEN RegexedLoop([l EXCEPT !.bufferPointer = tokEnd], bufferWasExtended,
                        Append(spans, SubSeq(l.buffer,
                                             l.bufferPointer + m.position + 1,
                                             tokEnd)))
       ELSE IF useFallbackErrorRule /\ m.group - 1 = errorRuleIndex
       THEN throwError(l, InvalidToken, spans)
       ELSE AcceptToken(l, m, bufferWasExtended, spans)

\* The matching loop with an error branch that moves the cursor behind
\* the offending match before it throws.
MatchedSkipError(l, m, bufferWasExtended, spans) ==
    LET tokEnd == l.bufferPointer + m.position + m.length
    IN IF ~m.found
       THEN IF useFallbackErrorRule
            THEN throwError(l, CantBeMatched, spans)
            ELSE RegexedLoop([l EXCEPT !.bufferPointer = l.bufferEnd],
                             bufferWasExtended, spans)
       ELSE IF m.group - 1 = spaceRuleIndex
       THEN RegexedLoop([l EXCEPT !.bufferPointer = tokEnd], bufferWasExtended,
                        Append(spans, SubSeq(l.buffer,
                                             l.bufferPointer + m.position + 1,
                                             tokEnd)))
       ELSE IF tokEnd >= l.bufferEnd /\ ~l.endOfStream
       THEN AfterReBuffer(ReBuffer(l, m), bufferWasExtended, spans)
       ELSE IF useFallbackErrorRule /\ m.group - 1 = errorRuleIndex
       THEN throwError([l EXCEPT !.bufferPointer = tokEnd], InvalidToken, spans)
       ELSE AcceptToken(l, m, bufferWasExtended, spans)

\* Lines 279-387: the matching loop, for the result m of regex_search.
Matched(l, m, bufferWasExtended, spans) ==
    LET tokEnd == l.bufferPointer + m.position + m.length
    IN IF ~m.found
       THEN IF useFallbackErrorRule
            THEN throwError(l, CantBeMatched, spans)
            ELSE RegexedLoop([l EXCEPT !.bufferPointer = l.bufferEnd],
                             bufferWasExtended, spans)
       ELSE IF m.group - 1 = spaceRuleIndex
       THEN RegexedLoop([l EXCEPT !.bufferPointer = tokEnd], bufferWasExtended,
                        Append(spans, SubSeq(l.buffer,
                                             l.bufferPointer + m.position + 1,
                                             tokEnd)))
       ELSE IF tokEnd >= l.bufferEnd /\ ~l.endOfStream
       THEN AfterReBuffer(ReBuffer(l, m), bufferWasExtended, spans)
       ELSE IF useFallbackErrorRule /\ m.group - 1 = errorRuleIndex
       THEN throwError(l, InvalidToken, spans)
       ELSE AcceptToken(l, m, bufferWasExtended, spans)

\* One round of the outer while( true ) of lines 273-461.
RegexedLoop(l, bufferWasExtended, spans) ==
    IF l.bufferPointer < l.bufferEnd
    THEN Matched(l, regex_search(l.buffer, l.bufferPointer, l.bufferEnd),
                 bufferWasExtended, spans)
    ELSE AfterFetch(updateBuffer(l, 0), 0, FALSE, bufferWasExtended, spans)

\* Lines 253-258: u is what the initial updateBuffer() gave.
AfterInitialUpdate(u) ==
    IF ~u.ret /\ u.lex.bufferPointer >= u.lex.bufferEnd
    THEN Result(u.lex, TOKEN_END_OF_FILE, NoToken, <<>>, FALSE)
    ELSE RegexedLoop(u.lex, FALSE, <<>>)

getNextTokenPriv_Regexed(l) == AfterInitialUpdate(updateBuffer(l, 0))


(***************************************************************************)
(* void LexerImpl::runner_dedicatedIteration( LexerImpl& lex )             *)
(* The runner is modelled in steps: its entry, one step for each match of  *)
(* the regex iterator, and one step for the buffer work that follows the   *)
(* matching loop.  The locals of a runner:                                 *)
(*   bufferWasExtended, reBufferNeeded, tokEnd, fetchOffset: as named;     *)
(*   it: the offset at which the iterator searches its current match;      *)
(*   tt, tok: the locals of runner_usingTokenGetter;                       *)
(*   top, again: history, the lexer at the top of the current round of     *)
(*   while( ++bufferUpdates ), and whether the round before it started     *)
(*   with the same lexer.                                                  *)
(***************************************************************************)
NoLocals ==
    [bufferWasExtended |-> FALSE, reBufferNeeded |-> 0, tokEnd |-> 0,
     fetchOffset |-> 0, it |-> 0, tt |-> 0, tok |-> NoToken,
     top |-> <<>>, again |-> FALSE]

\* Lines 492-503: the locals at the top of a round, for the lexer l.
LoopTop(l, ext, v) ==
    LET snapshot == <<l.rdr.pos, l.buffer, l.bufferPointer, l.bufferEnd, ext>>
    IN [NoLocals EXCEPT !.bufferWasExtended = ext,
                        !.tokEnd = l.bufferPointer,
                        !.it = l.bufferPointer,
                        !.top = snapshot,
                        !.again = (v.top = snapshot)]

\* The storage of a string that was moved from and then assigned n '\0's,
\* read through a pointer taken before the move (lines 571-575).  Where the
\* move hands over the allocation (heap) the bytes are still those of the
\* old buffer; where the string keeps its bytes in place (a small string)
\* the offsets 0..n have been overwritten.
StaleBytes(old, n, heap) ==
    [i \in 1..Len(old) |-> IF heap \/ i > n + 1 THEN old[i] ELSE NUL]

\* A rebuffering that grows the buffer only when the open token is longer
\* than the whole buffer.
DedicatedReBufferLate(l, fetchOffset) ==
    LET extend == fetchOffset > Len(l.buffer)
        grown  == Len(l.buffer) + (l.buffSize \div 2)
    IN [buffer |-> IF extend
                   THEN IF fetchOffset > 0
                        THEN MemMove(Zeros(grown), l.buffer, l.bufferPointer, fetchOffset)
                        ELSE l.buffer \o Zeros(l.buffSize \div 2)
                   ELSE IF fetchOffset > 0
                        THEN MemMove(l.buffer, l.buffer, l.bufferPointer, fetchOffset)
                        ELSE l.buffer,
        extended |-> extend]

\* A rebuffering that grows the buffer by BUFFER_SIZE, not by half of it.
DedicatedReBufferWide(l, fetchOffset) ==
    LET extend == fetchOffset > Len(l.buffer) - (l.buffSize \div 2)
        grown  == Len(l.buffer) + l.buffSize
    IN [buffer |-> IF extend
                   THEN IF fetchOffset > 0
                        THEN MemMove(Zeros(grown), l.buffer, l.bufferPointer, fetchOffset)
                        ELSE l.buffer \o Zeros(l.buffSize)
                   ELSE IF fetchOffset > 0
                        THEN MemMove(l.buffer, l.buffer, l.bufferPointer, fetchOffset)
                        ELSE l.buffer,
        extended |-> extend]

\* Lines 607-649: the buffer after the token old[ptr, ptr + fetchOffset)
\* has been moved to its start, and whether the buffer has been grown.
DedicatedReBuffer(l, fetchOffset) ==
    LET extend == fetchOffset > Len(l.buffer) - (l.buffSize \div 2)
        grown  == Len(l.buffer) + (l.buffSize \div 2)
    IN [buffer |-> IF extend
                   THEN IF fetchOffset > 0
                        THEN MemMove(Zeros(grown), l.buffer, l.bufferPointer, fetchOffset)
                        ELSE l.buffer \o Zeros(l.buffSize \div 2)
                   ELSE IF fetchOffset > 0
                        THEN MemMove(l.buffer, l.buffer, l.bufferPointer, fetchOffset)
                        ELSE l.buffer,
        extended |-> extend]

(***************************************************************************)
(* The state after construction: a lexer over the stream data, with the    *)
(* queue (useBQ) or without it, and with the runner that start() is to     *)
(* use.                                                                    *)
(***************************************************************************)
Constructed(data, useBQ, dedicated) ==
    /\ rdr = [data |-> data, pos |-> 0, eof |-> FALSE]
    /\ buffer = Zeros(BUFFER_SIZE)
    /\ bufferPointer = 0
    /\ bufferEnd = 0
    /\ endOfStream = FALSE
    /\ running = FALSE
    /\ useBlockingQueue = useBQ
    /\ useDedicatedLoopyTokenizer = dedicated
    /\ bQueue = <<>>
    /\ pc = [t \in Threads |-> "idle"]
    /\ loc = [p \in Producers |-> NoLocals]
    /\ calls = <<>>
    /\ consumed = <<>>
    /\ pushed = <<>>
    /\ startCalls = 0
    /\ startedAt = <<>>
    /\ startThrew = FALSE
    /\ memFault = FALSE
    /\ gdata = TestGrammar
    /\ lexics = RegLexData(TestGrammar)

\* The calls that returned no token.
Refusals == {i \in 1..Len(calls) : calls[i].ret # "token"}

\* The lexer's fields after a scanning function left them as l.
SetLex(l) ==
    /\ rdr' = l.rdr
    /\ buffer' = l.buffer
    /\ bufferPointer' = l.bufferPointer
    /\ bufferEnd' = l.bufferEnd
    /\ endOfStream' = l.endOfStream

\* A push that waits until the queue has been emptied.
PushWhenEmpty(tok) ==
    /\ Len(pushed) < MaxPushed
    /\ bQueue = <<>>
    /\ bQueue' = Append(bQueue, tok)
    /\ pushed' = Append(pushed, tok)

\* bQueue->push( tok )
Push(tok) ==
    /\ Len(pushed) < MaxPushed
    /\ bQueue' = Append(bQueue, tok)
    /\ pushed' = Append(pushed, tok)

\* The scanner of a runner passes the span str.
Pass(str) ==
    /\ Len(consumed) < MaxPushed
    /\ consumed' = Append(consumed, str)

\* No other thread is inside a call of the lexer.
Alone(t) == \A u \in Threads \ {t} : pc[u] = "idle"

(***************************************************************************)
(* bool LexerImpl::getNextToken( LexicToken& tok ), without the queue      *)
(* (lines 736-740): one call of the private token getter.                  *)
(***************************************************************************)
\* The call returns what the token getter's result r tells.
SyncReturn(r) ==
    /\ SetLex(r.lex)
    /\ calls' = Append(calls,
           IF r.threw THEN [ret |-> "throw", tok |-> r.tok, what |-> r.what]
           ELSE IF r.ret >= 0 THEN [ret |-> "token", tok |-> r.tok]
           ELSE [ret |-> "false", tok |-> r.tok])
    /\ consumed' = consumed \o r.spans
    /\ memFault' = (memFault \/ r.fault)

GetNextTokenSync ==
    /\ ~useBlockingQueue
    /\ Cardinality(Refusals) < MaxExtraCalls
    /\ SyncReturn(getNextTokenPriv_Regexed(Lex))
    /\ UNCHANGED <<gdata, lexics, running, useBlockingQueue, useDedicatedLoopyTokenizer, bQueue,
                   pc, loc, pushed, startCalls, startedAt, startThrew>>

(***************************************************************************)
(* void LexerImpl::start(), lines 704-717, in steps.                       *)
(***************************************************************************)
\* start() without the check of useBlockingQueue at line 706.
StartCallAnyMode(p) ==
    /\ pc[p] = "idle"
    /\ startCalls < MaxStarts
    /\ startCalls' = startCalls + 1
    /\ startedAt' = Append(startedAt, Len(calls))
    /\ pc' = IF running THEN pc ELSE [pc EXCEPT ![p] = "set"]
    /\ UNCHANGED <<gdata, lexics, lexVars, running, useBlockingQueue, useDedicatedLoopyTokenizer,
                   bQueue, loc, calls, consumed, pushed, startThrew, memFault>>

\* Line 706: the call conditions are read.
StartCall(p) ==
    /\ pc[p] = "idle"
    /\ startCalls < MaxStarts
    /\ startCalls' = startCalls + 1
    /\ startedAt' = Append(startedAt, Len(calls))
    /\ pc' = IF running \/ ~useBlockingQueue THEN pc ELSE [pc EXCEPT ![p] = "set"]
    /\ UNCHANGED <<gdata, lexics, lexVars, running, useBlockingQueue, useDedicatedLoopyTokenizer,
                   bQueue, loc, calls, consumed, pushed, startThrew, memFault>>

\* Line 708: running = true; then runnerPriv is called.
StartSetRunning(p) ==
    /\ pc[p] = "set"
    /\ running' = TRUE
    /\ pc' = [pc EXCEPT ![p] = IF useDedicatedLoopyTokenizer THEN "begin" ELSE "get"]
    /\ loc' = [loc EXCEPT ![p] = NoLocals]
    /\ UNCHANGED <<gdata, lexics, lexVars, useBlockingQueue, useDedicatedLoopyTokenizer, bQueue,
                   calls, consumed, pushed, startCalls, startedAt, startThrew, memFault>>

\* Line 714: the runner has returned; the END_OF_STREAM token is pushed.
PushEndOfStream(p) ==
    /\ pc[p] = "sentinel"
    /\ Push([id |-> END_OF_STREAM_TOKEN, data |-> <<>>])
    /\ pc' = [pc EXCEPT ![p] = "clear"]
    /\ UNCHANGED <<gdata, lexics, lexVars, running, useBlockingQueue, useDedicatedLoopyTokenizer,
                   loc, calls, consumed, startCalls, startedAt, startThrew, memFault>>

\* Line 716: running = false, and start() returns.
ClearRunning(p) ==
    /\ pc[p] = "clear"
    /\ running' = FALSE
    /\ pc' = [pc EXCEPT ![p] = "idle"]
    /\ UNCHANGED <<gdata, lexics, lexVars, useBlockingQueue, useDedicatedLoopyTokenizer, bQueue,
                   loc, calls, consumed, pushed, startCalls, startedAt, startThrew, memFault>>

(***************************************************************************)
(* void LexerImpl::runner_usingTokenGetter( LexerImpl& lex ), lines        *)
(* 676-690: the call of the token getter, and what is done with its result.*)
(***************************************************************************)
\* Lines 680-681 (and an exception that leaves the runner and start()).
Got(p, r) ==
    /\ SetLex(r.lex)
    /\ consumed' = consumed \o r.spans
    /\ memFault' = (memFault \/ r.fault)
    /\ IF r.threw
       THEN /\ pc' = [pc EXCEPT ![p] = "idle"]
            /\ startThrew' = TRUE
            /\ loc' = loc
       ELSE /\ pc' = [pc EXCEPT ![p] = "put"]
            /\ startThrew' = startThrew
            /\ loc' = [loc EXCEPT ![p].tt = r.ret, ![p].tok = r.tok]

RunnerGet(p) ==
    /\ pc[p] = "get"
    /\ Got(p, getNextTokenPriv_Regexed(Lex))
    /\ UNCHANGED <<gdata, lexics, running, useBlockingQueue, useDedicatedLoopyTokenizer, bQueue,
                   calls, pushed, startCalls, startedAt>>

\* Lines 683-688.
RunnerPut(p) ==
    /\ pc[p] = "put"
    /\ IF loc[p].tt >= 0
       THEN /\ Push(loc[p].tok)
            /\ pc' = [pc EXCEPT ![p] = "get"]
       ELSE /\ pc' = [pc EXCEPT ![p] = "sentinel"]
            /\ UNCHANGED <<bQueue, pushed>>
    /\ UNCHANGED <<gdata, lexics, lexVars, running, useBlockingQueue, useDedicatedLoopyTokenizer,
                   loc, calls, consumed, startCalls, startedAt, startThrew, memFault>>

(***************************************************************************)
(* runner_dedicatedIteration, lines 471-668, in steps.                     *)
(***************************************************************************)
\* Lines 476-480: the initial buffer update gave u.
Begun(p, u) ==
    /\ SetLex(u.lex)
    /\ IF ~u.ret
       THEN /\ pc' = [pc EXCEPT ![p] = "sentinel"]
            /\ loc' = loc
       ELSE /\ pc' = [pc EXCEPT ![p] = "match"]
            /\ loc' = [loc EXCEPT ![p] = LoopTop(u.lex, FALSE, NoLocals)]

DedicatedBegin(p) ==
    /\ pc[p] = "begin"
    /\ Begun(p, updateBuffer(Lex, 0))
    /\ UNCHANGED <<gdata, lexics, running, useBlockingQueue, useDedicatedLoopyTokenizer, bQueue,
                   calls, consumed, pushed, startCalls, startedAt, startThrew, memFault>>

\* The current match of the regex iterator of producer p.
IteratorMatch(p) == regex_search(buffer, loc[p].it, bufferEnd)

\* Lines 507-601: the body of the matching loop for the match m, and ++it.
MatchBody(p, m) ==
    LET start    == loc[p].it + m.position
        position == start - bufferPointer
        tokEnd   == bufferPointer + position + m.length
        str      == SubSeq(buffer, start + 1, start + m.length)
        remLen   == bufferEnd - tokEnd
        stepped  == [loc EXCEPT ![p].it = start + m.length]
    IN IF m.group - 1 = spaceRuleIndex
       THEN /\ loc' = stepped
            /\ Pass(str)
            /\ UNCHANGED <<lexVars, bQueue, pushed, pc, startThrew, memFault>>
       ELSE IF tokEnd >= bufferEnd /\ ~endOfStream
       THEN /\ loc' = [stepped EXCEPT ![p].tokEnd = tokEnd,
                                      ![p].reBufferNeeded = TOKEN_AT_THE_END]
            /\ bufferPointer' = bufferPointer + position
            /\ UNCHANGED <<rdr, buffer, bufferEnd, endOfStream, bQueue, pushed,
                           pc, consumed, startThrew, memFault>>
       ELSE IF useFallbackErrorRule /\ m.group - 1 = errorRuleIndex
       THEN /\ pc' = [pc EXCEPT ![p] = "idle"]
            /\ startThrew' = TRUE
            /\ UNCHANGED <<lexVars, bQueue, pushed, loc, consumed, memFault>>
       ELSE IF loc[p].bufferWasExtended
       THEN \E heap \in BOOLEAN :
            /\ Push([id |-> tokenTypeIDs[m.group],
                     data |-> SubSeq(buffer, 1, m.length)])
            /\ buffer' = MemMove(Zeros(BUFFER_SIZE),
                                 StaleBytes(buffer, BUFFER_SIZE, heap),
                                 tokEnd, Min(remLen, BUFFER_SIZE))
            /\ memFault' = (memFault \/ remLen > BUFFER_SIZE)
            /\ loc' = [stepped EXCEPT ![p].tokEnd = tokEnd,
                                      ![p].reBufferNeeded = REFETCH_NEEDED,
                                      ![p].fetchOffset = remLen,
                                      ![p].bufferWasExtended = FALSE]
            /\ Pass(SubSeq(buffer, 1, m.length))
            /\ UNCHANGED <<rdr, bufferPointer, bufferEnd, endOfStream, pc,
                           startThrew>>
       ELSE /\ Push([id |-> tokenTypeIDs[m.group], data |-> str])
            /\ loc' = [stepped EXCEPT ![p].tokEnd = tokEnd]
            /\ Pass(str)
            /\ UNCHANGED <<lexVars, pc, startThrew, memFault>>

\* Lines 504-602: one round of the matching loop.
DedicatedMatch(p) ==
    /\ pc[p] = "match"
    /\ loc[p].reBufferNeeded = 0
    /\ IteratorMatch(p).found
    /\ MatchBody(p, IteratorMatch(p))
    /\ UNCHANGED <<gdata, lexics, running, useBlockingQueue, useDedicatedLoopyTokenizer, calls,
                   startCalls, startedAt>>

\* Lines 652-667: u is what updateBuffer( fetchOffset ) gave.  The runner
\* returns, or the next round of while( ++bufferUpdates ) begins.
Fetched(p, u, fetchOffset, bufferWasExtended) ==
    IF ~u.ret /\ ~bufferWasExtended
    THEN /\ SetLex(u.lex)
         /\ pc' = [pc EXCEPT ![p] = "sentinel"]
         /\ loc' = loc
    ELSE /\ SetLex([u.lex EXCEPT
                       !.bufferEnd = IF ~u.ret /\ loc[p].reBufferNeeded # 0
                                     THEN fetchOffset ELSE @,
                       !.bufferPointer = IF loc[p].reBufferNeeded # 0 \/ bufferWasExtended
                                         THEN 0 ELSE @])
         /\ pc' = pc
         /\ loc' = [loc EXCEPT ![p] =
                       LoopTop([buffer |-> buffer', bufferPointer |-> bufferPointer',
                                bufferEnd |-> bufferEnd', rdr |-> rdr'],
                               bufferWasExtended, loc[p])]

\* Lines 607-649: the buffer after the open token has been moved to its
\* start; fetchOffset is the token's length.
ReBuffered(p, fetchOffset, rb) ==
    Fetched(p, updateBuffer([Lex EXCEPT !.buffer = rb.buffer], fetchOffset),
            fetchOffset, loc[p].bufferWasExtended \/ rb.extended)

\* Lines 604-667: the matching loop has ended.
DedicatedFetch(p) ==
    /\ pc[p] = "match"
    /\ ~(loc[p].reBufferNeeded = 0 /\ IteratorMatch(p).found)
    /\ IF loc[p].reBufferNeeded = TOKEN_AT_THE_END
       THEN ReBuffered(p, loc[p].tokEnd - bufferPointer,
                       DedicatedReBuffer(Lex, loc[p].tokEnd - bufferPointer))
       ELSE Fetched(p, updateBuffer(Lex, loc[p].fetchOffset), loc[p].fetchOffset,
                    loc[p].bufferWasExtended)
    /\ UNCHANGED <<gdata, lexics, running, useBlockingQueue, useDedicatedLoopyTokenizer, bQueue,
                   calls, consumed, pushed, startCalls, startedAt, startThrew, memFault>>

(***************************************************************************)
(* bool LexerImpl::getNextToken( LexicToken& tok ) with the queue, lines   *)
(* 728-734, in steps: the three reads of the condition of line 729, and    *)
(* the pop.                                                                *)
(***************************************************************************)
Returned(ret, tok) ==
    /\ calls' = Append(calls, [ret |-> ret, tok |-> tok])
    /\ pc' = [pc EXCEPT ![Consumer] = "idle"]

GetNextTokenCall ==
    /\ pc[Consumer] = "idle"
    /\ useBlockingQueue
    /\ Cardinality(Refusals) < MaxExtraCalls
    /\ pc' = [pc EXCEPT ![Consumer] = IF endOfStream THEN "isEmpty" ELSE "pop"]
    /\ UNCHANGED <<gdata, lexics, lexVars, running, useBlockingQueue, useDedicatedLoopyTokenizer,
                   bQueue, loc, calls, consumed, pushed, startCalls, startedAt, startThrew,
                   memFault>>

\* bQueue->isEmpty()
QueueIsEmpty ==
    /\ pc[Consumer] = "isEmpty"
    /\ pc' = [pc EXCEPT ![Consumer] = IF bQueue = <<>> THEN "running" ELSE "pop"]
    /\ UNCHANGED <<gdata, lexics, lexVars, running, useBlockingQueue, useDedicatedLoopyTokenizer,
                   bQueue, loc, calls, consumed, pushed, startCalls, startedAt, startThrew,
                   memFault>>

\* !running, and line 730
ReadRunning ==
    /\ pc[Consumer] = "running"
    /\ IF ~running
       THEN Returned("false", NoToken)
       ELSE /\ pc' = [pc EXCEPT ![Consumer] = "pop"]
            /\ calls' = calls
    /\ UNCHANGED <<gdata, lexics, lexVars, running, useBlockingQueue, useDedicatedLoopyTokenizer,
                   bQueue, loc, consumed, pushed, startCalls, startedAt, startThrew, memFault>>

\* Lines 732-733: BlockingQueue::pop() waits while the queue is empty.
QueuePop ==
    /\ pc[Consumer] = "pop"
    /\ bQueue # <<>>
    /\ bQueue' = Tail(bQueue)
    /\ Returned(IF Head(bQueue).id # END_OF_STREAM_TOKEN THEN "token" ELSE "false",
                Head(bQueue))
    /\ UNCHANGED <<gdata, lexics, lexVars, running, useBlockingQueue, useDedicatedLoopyTokenizer,
                   loc, consumed, pushed, startCalls, startedAt, startThrew, memFault>>

(***************************************************************************)
(* Specifications.                                                         *)
(*   Spec      the lexer without the queue: getNextToken() calls.          *)
(*   SpecAsync the lexer with the queue, used by one thread at a time:     *)
(*             start() and getNextToken() calls in any order.              *)
(*   SpecConc  the lexer with the queue, its calls interleaved step by     *)
(*             step: two threads in start(), one in getNextToken().        *)
(* The accesses of the threads to the lexer's fields are taken as atomic   *)
(* and sequentially consistent.                                            *)
(***************************************************************************)
Init == \E data \in SeqsUpTo(MaxLen) : Constructed(data, FALSE, TRUE)

Next == GetNextTokenSync

Spec == Init /\ [][Next]_vars

\* The lexer without the queue whose user calls start() as well.
NextStart ==
    \/ GetNextTokenSync
    \/ StartCall("p1")

SpecStart == Init /\ [][NextStart]_vars

\* The lexer without the queue, over the streams that hold a word of
\* distinct letters that is longer than BUFFER_SIZE.
LongWord(n) == SubSeq(Letters, 1, n)

InitLong ==
    \E before \in SeqsUpTo(MaxAround), after \in SeqsUpTo(MaxAround),
       n \in (BUFFER_SIZE + 1)..MaxLong :
        Constructed(before \o LongWord(n) \o after, FALSE, TRUE)

SpecLong == InitLong /\ [][Next]_vars

ProducerStep(p) ==
    \/ StartSetRunning(p)
    \/ DedicatedBegin(p)
    \/ DedicatedMatch(p)
    \/ DedicatedFetch(p)
    \/ RunnerGet(p)
    \/ RunnerPut(p)
    \/ PushEndOfStream(p)
    \/ ClearRunning(p)

ConsumerStep ==
    \/ QueueIsEmpty
    \/ ReadRunning
    \/ QueuePop

InitAsync ==
    \E data \in SeqsUpTo(MaxAsyncLen), dedicated \in BOOLEAN :
        Constructed(data, TRUE, dedicated)

NextAsync ==
    \/ Alone("p1") /\ StartCall("p1")
    \/ ProducerStep("p1")
    \/ Alone(Consumer) /\ GetNextTokenCall
    \/ ConsumerStep

SpecAsync == InitAsync /\ [][NextAsync]_vars

\* The lexer with the queue over the streams that hold a word that fills
\* the buffer or is longer than it.
InitAsyncLong ==
    \E before \in SeqsUpTo(MaxAround), after \in SeqsUpTo(MaxAfter),
       n \in BUFFER_SIZE..MaxLong, dedicated \in BOOLEAN :
        Constructed(before \o LongWord(n) \o after, TRUE, dedicated)

SpecAsyncLong == InitAsyncLong /\ [][NextAsync]_vars

(***************************************************************************)
(* SpecShrink: start() on a stream with a word that makes the buffer grow, *)
(* followed by up to MaxTail bytes that are no word characters, so that    *)
(* more than a buffer of them can follow the word.                         *)
(***************************************************************************)
MaxTail == 6

Tails == {s \in SeqsUpTo(MaxTail) : \A i \in 1..Len(s) : s[i] \in OpChars \cup SpaceChars}

InitShrink ==
    \E before \in SeqsUpTo(1), tail \in Tails,
       n \in (BUFFER_SIZE - 1)..MaxLong, dedicated \in BOOLEAN :
        Constructed(before \o LongWord(n) \o tail, TRUE, dedicated)

SpecShrink == InitShrink /\ [][NextAsync]_vars

(***************************************************************************)
(* SpecCompile: a grammar is compiled to a lexicon; no lexer is in use.    *)
(***************************************************************************)
\* RegLexData::RegLexData(): the lexicon before anything is compiled.
NotCompiled ==
    [fullLanguageRegex |-> <<>>, tokenTypeIDs |-> <<>>,
     useCustomWhitespaces |-> FALSE, regexWhitespaces |-> <<>>,
     useFallbackErrorRule |-> TRUE, spaceRuleIndex |-> 0, errorRuleIndex |-> 0,
     starts |-> <<>>, spaceStart |-> 0, errorStart |-> 0, threw |-> FALSE]

\* RegLexData lexicon( gdata ): the whole constructor.
Compile ==
    /\ lexics = NotCompiled
    /\ lexics' = RegLexData(gdata)
    /\ UNCHANGED <<gdata, lexVars, running, useBlockingQueue,
                   useDedicatedLoopyTokenizer, bQueue, pc, loc, calls, consumed,
                   pushed, startCalls, startedAt, startThrew, memFault>>

InitCompile ==
    /\ \E names \in [1..Len(TagNames) -> AllTagNames], shapes \in [1..Len(TagNames) -> RuleShapes] :
           /\ \A i \in 1..Len(TagNames) : names[i] \in TagNames[i]
           /\ gdata = Grammar(names, shapes)
    /\ lexics = NotCompiled
    /\ rdr = [data |-> <<>>, pos |-> 0, eof |-> FALSE]
    /\ buffer = Zeros(BUFFER_SIZE)
    /\ bufferPointer = 0
    /\ bufferEnd = 0
    /\ endOfStream = FALSE
    /\ running = FALSE
    /\ useBlockingQueue = FALSE
    /\ useDedicatedLoopyTokenizer = TRUE
    /\ bQueue = <<>>
    /\ pc = [t \in Threads |-> "idle"]
    /\ loc = [p \in Producers |-> NoLocals]
    /\ calls = <<>>
    /\ consumed = <<>>
    /\ pushed = <<>>
    /\ startCalls = 0
    /\ startedAt = <<>>
    /\ startThrew = FALSE
    /\ memFault = FALSE

(***************************************************************************)
(* SpecGbnf: the rule table of a grammar is edited and searched.           *)
(***************************************************************************)
\* Greatest rule ID that is inserted, and most rules the table is let to
\* hold.
MaxRuleID == 4
MaxRules == 3

RuleIDs == 1..MaxRuleID

\* What the lexer's variables are when only the grammar is worked on.
NoLexer ==
    /\ lexics = NotCompiled
    /\ rdr = [data |-> <<>>, pos |-> 0, eof |-> FALSE]
    /\ buffer = Zeros(BUFFER_SIZE)
    /\ bufferPointer = 0
    /\ bufferEnd = 0
    /\ endOfStream = FALSE
    /\ running = FALSE
    /\ useBlockingQueue = FALSE
    /\ useDedicatedLoopyTokenizer = TRUE
    /\ bQueue = <<>>
    /\ pc = [t \in Threads |-> "idle"]
    /\ loc = [p \in Producers |-> NoLocals]
    /\ calls = <<>>
    /\ consumed = <<>>
    /\ pushed = <<>>
    /\ startCalls = 0
    /\ startedAt = <<>>
    /\ startThrew = FALSE
    /\ memFault = FALSE

\* GbnfData(): no tags, no rules, not sorted.
InitGbnf ==
    /\ gdata = [tagTable |-> <<>>, sorted |-> FALSE, grammarTable |-> <<>>]
    /\ NoLexer

GbnfFrame ==
    UNCHANGED <<lexics, lexVars, running, useBlockingQueue,
                useDedicatedLoopyTokenizer, bQueue, pc, loc, calls, consumed,
                pushed, startCalls, startedAt, startThrew, memFault>>

InsertRule ==
    /\ Len(gdata.grammarTable) < MaxRules
    /\ \E i \in RuleIDs : gdata' = insertRule(gdata, [ID |-> i, options |-> <<>>])
    /\ GbnfFrame

RemoveRule ==
    /\ \E i \in RuleIDs : \E it \in LowerBounds(gdata.grammarTable, i) :
           /\ gdata' = removeRule(gdata, i, it)
           /\ gdata' # gdata
    /\ GbnfFrame

Sort ==
    /\ gdata' = sort(gdata)
    /\ gdata' # gdata
    /\ GbnfFrame

NextGbnf ==
    \/ InsertRule
    \/ RemoveRule
    \/ Sort

SpecGbnf == InitGbnf /\ [][NextGbnf]_vars

NextCompile == Compile

SpecCompile == InitCompile /\ [][NextCompile]_vars

InitConc ==
    \E data \in SeqsUpTo(MaxConcLen), dedicated \in BOOLEAN :
        Constructed(data, TRUE, dedicated)

NextConc ==
    \/ \E p \in Producers : StartCall(p) \/ ProducerStep(p)
    \/ GetNextTokenCall
    \/ ConsumerStep

SpecConc == InitConc /\ [][NextConc]_vars

(***************************************************************************)
(* What the stream holds: the master pattern applied to the whole stream.  *)
(***************************************************************************)
RECURSIVE Lexemes(_, _)
\* The match m at offset p of the stream and the lexemes that follow it.
\* The lexemes end before the first text that only the error group matches.
LexemesFrom(data, p, m) ==
    IF ~m.found \/ m.group - 1 = errorRuleIndex
    THEN <<>>
    ELSE <<[group |-> m.group,
            data |-> SubSeq(data, p + m.position + 1, p + m.position + m.length)]>>
         \o Lexemes(data, p + m.position + m.length)

Lexemes(data, p) ==
    IF p >= Len(data) THEN <<>>
    ELSE LexemesFrom(data, p, regex_search(data, p, Len(data)))

IsToken(x) == x.group - 1 # spaceRuleIndex

\* The tokens of the stream, in order.
InputTokens(data) ==
    LET toks == SelectSeq(Lexemes(data, 0), IsToken)
    IN [i \in 1..Len(toks) |-> [id |-> tokenTypeIDs[toks[i].group], data |-> toks[i].data]]

\* The stream consists of tokens and white space only.
Legal(data) == \A i \in 1..Len(data) : data[i] \notin OtherChars

RECURSIVE Flatten(_)
Flatten(ss) == IF ss = <<>> THEN <<>> ELSE Head(ss) \o Flatten(Tail(ss))

IsTokenCall(c) == c.ret = "token"

\* The tokens that getNextToken() has returned so far, in order.
Delivered ==
    LET cs == SelectSeq(calls, IsTokenCall)
    IN [i \in 1..Len(cs) |-> cs[i].tok]

\* The tokens returned before the first call that returned none.
DeliveredFirst ==
    LET first == CHOOSE i \in Refusals : \A j \in Refusals : i <= j
    IN [i \in 1..(first - 1) |-> calls[i].tok]

(***************************************************************************)
(* The lexer over the same stream with another nominal buffer size.        *)
(***************************************************************************)
\* The nominal size that stands for 2048: every stream fits into it.
BigChunk == 2048

Fresh(data, size) ==
    [rdr |-> [data |-> data, pos |-> 0, eof |-> FALSE], buffer |-> Zeros(size),
     bufferPointer |-> 0, bufferEnd |-> 0, endOfStream |-> FALSE,
     buffSize |-> size]

RECURSIVE TokensOf(_)
\* The tokens that getNextToken() calls return up to the first call that
\* returns none, on the lexer l.
TokensAfter(r) ==
    IF r.threw \/ r.ret < 0 THEN <<>> ELSE <<r.tok>> \o TokensOf(r.lex)

TokensOf(l) == TokensAfter(getNextTokenPriv_Regexed(l))

(***************************************************************************)
(* Claims about the lexer without the queue.                               *)
(***************************************************************************)
\* Every token of toks longer than BUFFER_SIZE is in got whole and at its
\* place, and is in got once a call has returned no token.
WholeLongTokens(toks, got) ==
    \A i \in 1..Len(toks) :
        Len(toks[i].data) > BUFFER_SIZE =>
            /\ i <= Len(got) => got[i] = toks[i]
            /\ Refusals # {} => i <= Len(got)

\* C1: a token of the stream that is longer than BUFFER_SIZE is returned by
\* getNextToken() as one token with its complete text, at its place in the
\* token sequence, and it has been returned when a call reports no token.
C1_NoTruncation == WholeLongTokens(InputTokens(rdr.data), Delivered)

\* A token longer than BUFFER_SIZE has been returned from the middle of a
\* stream: the buffer was grown for it and is back to its nominal size.
C1_Witness ==
    /\ Len(Delivered) >= 3
    /\ Len(Delivered[2].data) > BUFFER_SIZE
    /\ Delivered[2] = InputTokens(rdr.data)[2]
    /\ Len(buffer) = BUFFER_SIZE

\* C2: the tokens returned up to the first call that returns none are the
\* same, in number, id, data and order, with the nominal buffer sizes
\* BUFFER_SIZE and BigChunk.
C2_BufferSizeTransparency ==
    Refusals # {} => DeliveredFirst = TokensOf(Fresh(rdr.data, BigChunk))

\* C3: when getNextToken() reports the end of the stream, the buffer is
\* exhausted and every token of the stream has been returned.
C3_EndOnlyWhenExhausted ==
    (calls # <<>> /\ calls[Len(calls)].ret = "false") =>
        /\ bufferPointer >= bufferEnd
        /\ Legal(rdr.data) => Len(Delivered) = Len(InputTokens(rdr.data))

\* C4: for a stream of tokens and white space only, the texts of the tokens
\* returned and of the white space skipped, concatenated in order, are the
\* stream when a call reports no token.
C4_RoundTrip ==
    (Refusals # {} /\ Legal(rdr.data)) => Flatten(consumed) = rdr.data

(***************************************************************************)
(* Claims about the lexer with the queue.                                  *)
(***************************************************************************)
\* The places in pushed of the END_OF_STREAM tokens.
Sentinels == {i \in 1..Len(pushed) : pushed[i].id = END_OF_STREAM_TOKEN}

\* The producers that are past line 708 of start(): from the call of the
\* runner to the clearing of running.
Producing == {p \in Producers : pc[p] \notin {"idle", "set"}}

\* The getNextToken() calls that returned the END_OF_STREAM token.
SentinelPops == {i \in 1..Len(calls) : calls[i].tok.id = END_OF_STREAM_TOKEN}

\* C5: over any sequence of start() calls at most one END_OF_STREAM token
\* is pushed, no token is pushed after it, and it has been pushed when a
\* start() call that ran has returned.
C5_SentinelExactness ==
    /\ Cardinality(Sentinels) <= 1
    /\ \A i \in Sentinels : i = Len(pushed)
    /\ (startCalls > 0 /\ ~startThrew /\ \A p \in Producers : pc[p] = "idle")
          => Sentinels # {}

\* C6: when a fatal error has ended start(), the consumer is not left
\* waiting in pop() on an empty queue with no producer at work.
C6_ErrorReachesConsumer ==
    ~(/\ startThrew
      /\ pc[Consumer] = "pop"
      /\ bQueue = <<>>
      /\ \A p \in Producers : pc[p] = "idle")

\* C7: for a stream without lexical errors, the runner never begins a round
\* of its loop with the lexer as it was at the round before, which would
\* make it repeat that round for ever and start() never return.
C7_StartTerminates ==
    Legal(rdr.data) => \A p \in Producers : ~loc[p].again

\* C8: at most one thread at a time is past the running check of start().
C8_OneProducer == Cardinality(Producing) <= 1

\* C9: for a stream without lexical errors, once the END_OF_STREAM token
\* has been popped, getNextToken() is not left waiting in pop() on an empty
\* queue when start() has returned.
C9_NoBlockAfterSentinel ==
    ~(/\ Legal(rdr.data)
      /\ SentinelPops # {}
      /\ pc[Consumer] = "pop"
      /\ bQueue = <<>>
      /\ \A p \in Producers : pc[p] = "idle")

\* C10: getNextToken() returns false only with the END_OF_STREAM token it
\* popped, as long as no END_OF_STREAM token was popped before.
C10_EmptyIsNotEnd ==
    Legal(rdr.data) => \A i \in 1..Len(calls) :
        calls[i].ret = "false" =>
            \E j \in SentinelPops : j <= i


(***************************************************************************)
(* Claims that compare the lexer with the queue to the lexer without it.   *)
(***************************************************************************)
\* C11: the tokens that getNextToken() pops from the queue up to the first
\* call that reports none are the tokens that getNextToken() returns on a
\* lexer without the queue over the same stream, in the same order.
C11_AsyncDeliversSyncTokens ==
    (useBlockingQueue /\ Refusals # {}) =>
        DeliveredFirst = TokensOf(Fresh(rdr.data, BUFFER_SIZE))


(***************************************************************************)
(* Claims about lexical errors.                                            *)
(***************************************************************************)
RECURSIVE FirstErrorFrom(_, _)
\* The first text of the stream from offset p on that the fallback error
\* group matches, and the offset where it starts.
ErrorAt(data, p, m) ==
    IF ~m.found THEN [found |-> FALSE, offset |-> 0, text |-> <<>>]
    ELSE IF m.group - 1 = errorRuleIndex
    THEN [found |-> TRUE, offset |-> p + m.position,
          text |-> SubSeq(data, p + m.position + 1, p + m.position + m.length)]
    ELSE FirstErrorFrom(data, p + m.position + m.length)

FirstErrorFrom(data, p) ==
    IF p >= Len(data) THEN [found |-> FALSE, offset |-> 0, text |-> <<>>]
    ELSE ErrorAt(data, p, regex_search(data, p, Len(data)))

\* The characters t stand somewhere in the characters s.
Contains(s, t) ==
    \E k \in 0..(Len(s) - Len(t)) : SubSeq(s, k + 1, k + Len(t)) = t

\* The error text w names the column of e and holds the text of e.
Carries(w, e) ==
    /\ Contains(w, <<":">> \o to_string(e.offset) \o <<"]">>)
    /\ Contains(w, e.text)

\* C12: the error that getNextToken() throws when the fallback error group
\* matches carries the offset at which the offending text starts in the
\* stream and the offending text itself.
C12_ErrorCarriesTextAndPosition ==
    \A i \in 1..Len(calls) :
        calls[i].ret = "throw" => Carries(calls[i].what, FirstErrorFrom(rdr.data, 0))


\* The getNextToken() calls that threw.
Throws == {i \in 1..Len(calls) : calls[i].ret = "throw"}

\* The tokens that the calls before call i returned.
DeliveredBefore(i) ==
    LET cs == SelectSeq(SubSeq(calls, 1, i - 1), IsTokenCall)
    IN [k \in 1..Len(cs) |-> cs[k].tok]

\* The sequence s begins with the sequence t.
StartsWith(s, t) == Len(t) <= Len(s) /\ SubSeq(s, 1, Len(t)) = t

\* C13: when an error is reported, the tokens of the stream before its
\* first invalid text have all been delivered, in order: without the queue
\* by the getNextToken() calls before the one that throws, with the queue
\* they are returned or still in the queue when start() has thrown.
C13_TokensBeforeError ==
    /\ \A i \in Throws : StartsWith(DeliveredBefore(i), InputTokens(rdr.data))
    /\ startThrew => StartsWith(Delivered \o bQueue, InputTokens(rdr.data))


(***************************************************************************)
(* Claims about white space.                                               *)
(***************************************************************************)
\* The stream is white space and nothing else.
AllSpace(data) == data # <<>> /\ \A i \in 1..Len(data) : data[i] \in SpaceChars

\* C14: over a stream of white space only no getNextToken() call returns a
\* token, nothing but the END_OF_STREAM token is pushed onto the queue, and
\* no runner scans the same window again without end.
C14_WhitespaceOnly ==
    AllSpace(rdr.data) =>
        /\ \A i \in 1..Len(calls) : calls[i].ret = "false"
        /\ \A i \in 1..Len(pushed) : pushed[i].id = END_OF_STREAM_TOKEN
        /\ \A p \in Producers : ~loc[p].again


(***************************************************************************)
(* Claims about the compiled lexicon.                                      *)
(***************************************************************************)
\* The grammar has been compiled.
Compiled == lexics # NotCompiled

\* The parenthesis at offset k of a pattern opens a capturing group: it is
\* not escaped and is not the "(?:" of a group that captures nothing.
OpensGroup(str, k) ==
    /\ str[k] = "("
    /\ ~(k > 1 /\ str[k - 1] = "\\")
    /\ ~(k < Len(str) /\ str[k + 1] = "?")

\* The number that the regular expression engine gives the group opened
\* at offset p: groups are numbered from 1 by their opening parentheses.
GroupNumber(str, p) == Cardinality({k \in 1..p : OpensGroup(str, k)})

\* The number of the last group of the pattern.
mark_count(str) == GroupNumber(str, Len(str))

GroupsAgree(lx, re) ==
    /\ \A i \in 1..Len(lx.tokenTypeIDs) : GroupNumber(re, lx.starts[i]) = i
    /\ lx.spaceRuleIndex = Len(lx.tokenTypeIDs)
    /\ GroupNumber(re, lx.spaceStart) = lx.spaceRuleIndex + 1
    /\ lx.errorRuleIndex = lx.spaceRuleIndex + 1
    /\ GroupNumber(re, lx.errorStart) = lx.errorRuleIndex + 1
    /\ mark_count(re) = lx.errorRuleIndex + 1

\* C15: in a compiled lexicon the group that holds the fragment of the
\* rule tokenTypeIDs[i] (i from 0) is capture group i+1 of the master
\* pattern, the white space group is the next group, of index
\* spaceRuleIndex = |tokenTypeIDs|, and the error group is the last group,
\* of index errorRuleIndex = spaceRuleIndex + 1.
C15_GroupsMatchTokenTypes ==
    Compiled => GroupsAgree(lexics, lexics.fullLanguageRegex)

\* The name of the tag of a rule.
TagName(data, id) ==
    data.tagTable[CHOOSE k \in 1..Len(data.tagTable) : data.tagTable[k].ID = id].data

\* The rules whose tags have one of the names.
RulesNamed(data, names) ==
    {k \in 1..Len(data.grammarTable) : TagName(data, data.grammarTable[k].ID) \in names}

\* The fragment that a rule compiles to on its own.
Fragment(data, rule) ==
    collectRegexStringFromGTokens_priv(data,
        [str |-> <<>>, idStack |-> {}, ret |-> TRUE], rule, FALSE).str

\* The text inside the white space group of the master pattern.
SpaceFragment(lx) == SubSeq(lx.fullLanguageRegex, lx.spaceStart + 1, lx.errorStart - 3)

IsSpaceRule(data, lx, rule) ==
    /\ SpaceFragment(lx) = Fragment(data, rule)
    /\ \A i \in 1..Len(lx.tokenTypeIDs) : lx.tokenTypeIDs[i] # rule.ID

\* C16: the rule of a tag named regex_delim or regex_ignore is the rule
\* of white space: its fragment is the white space group of the master
\* pattern, in place of \s+, and the rule has no token group and no entry
\* in tokenTypeIDs.
C16_WhitespaceRule ==
    Compiled =>
        \A k \in RulesNamed(gdata, {"regex_delim", "regex_ignore"}) :
            IsSpaceRule(gdata, lexics, gdata.grammarTable[k])


(***************************************************************************)
(* Claims about the grammars that are refused.                             *)
(***************************************************************************)
\* The grammar has a rule for the tag.
HasRule(data, id) == \E k \in 1..Len(data.grammarTable) : data.grammarTable[k].ID = id

\* The tags that the options of a rule reference.
TagRefs(rule) ==
    UNION {{rule.options[o].children[t].id :
               t \in {j \in 1..Len(rule.options[o].children) :
                          rule.options[o].children[j].type = TAG_ID}} :
           o \in 1..Len(rule.options)}

\* Some option references a tag that has no rule.
Dangling(data) ==
    \E k \in 1..Len(data.grammarTable) :
        \E id \in TagRefs(data.grammarTable[k]) : ~HasRule(data, id)

\* Compilation was refused: the error was raised and no lexicon was made.
Refused(lx) == lx.threw /\ lx.fullLanguageRegex = <<>>

\* C17: compilation of a grammar in which some option references a tag
\* that has no rule fails with a GrammarError and makes no lexicon.
C17_DanglingReferenceRefused ==
    (Compiled /\ Dangling(gdata)) => Refused(lexics)

\* The rule of tag from references tag to, directly or through at most n
\* other rules.
RECURSIVE Reaches(_, _, _, _)
Reaches(data, from, to, n) ==
    \E k \in 1..Len(data.grammarTable) :
        /\ data.grammarTable[k].ID = from
        /\ \/ to \in TagRefs(data.grammarTable[k])
           \/ /\ n > 0
              /\ \E mid \in TagRefs(data.grammarTable[k]) : Reaches(data, mid, to, n - 1)

\* Some rule references itself, directly or through other rules.
SelfReferent(data) ==
    \E k \in 1..Len(data.grammarTable) :
        Reaches(data, data.grammarTable[k].ID, data.grammarTable[k].ID,
                Len(data.grammarTable))

\* C18: compilation of a grammar in which a rule references itself,
\* directly or through a chain of other rules, fails with a GrammarError.
C18_SelfReferenceRefused ==
    (Compiled /\ SelfReferent(gdata)) => lexics.threw

\* The grammar declares a tag with one of the names.
Declares(data, names) ==
    \E k \in 1..Len(data.tagTable) : data.tagTable[k].data \in names

\* C19: compilation of a grammar that declares both a tag named delim or
\* ignore and a tag named regex_delim or regex_ignore fails with a
\* GrammarError.  (The code has no setting that makes white space handling
\* mandatory, so the case of a grammar with neither is not stated.)
C19_BothDelimStylesRefused ==
    (/\ Compiled
     /\ Declares(gdata, {"delim", "ignore"})
     /\ Declares(gdata, {"regex_delim", "regex_ignore"})) => lexics.threw


(***************************************************************************)
(* Claims about start() on a lexer without the queue.                      *)
(***************************************************************************)
\* What a getNextToken() call without the queue reports for the token
\* getter's result r.
Outcome(r) ==
    IF r.threw THEN [ret |-> "throw", tok |-> r.tok, what |-> r.what]
    ELSE IF r.ret >= 0 THEN [ret |-> "token", tok |-> r.tok]
    ELSE [ret |-> "false", tok |-> r.tok]

RECURSIVE Replay(_, _, _)
ReplayStep(r, cs, k) == Replay(r.lex, Append(cs, Outcome(r)), k - 1)

\* The lexer l and the outcomes cs after k more getNextToken() calls and
\* no start() call.
Replay(l, cs, k) ==
    IF k = 0 THEN [lex |-> l, calls |-> cs]
    ELSE ReplayStep(getNextTokenPriv_Regexed(l), cs, k)

SameAs(rp) == Lex = rp.lex /\ calls = rp.calls

\* C20: on a lexer constructed without the queue start() does nothing: no
\* thread is inside it, running is false, the queue is empty and nothing
\* was pushed, and the lexer's buffer, cursor and stream position and the
\* outcomes of the getNextToken() calls are those of the same calls made
\* with no start() call in between.
C20_StartWithoutQueueIsNoOp ==
    ~useBlockingQueue =>
        /\ \A t \in Threads : pc[t] = "idle"
        /\ ~running
        /\ bQueue = <<>> /\ pushed = <<>>
        /\ ~startThrew
        /\ SameAs(Replay(Fresh(rdr.data, BUFFER_SIZE), <<>>, Len(calls)))

\* start() was called between two getNextToken() calls that returned
\* tokens, and before the first call and after the last as well.
C20_Witness ==
    /\ ~useBlockingQueue
    /\ \E i \in 1..Len(startedAt) :
           /\ startedAt[i] >= 1 /\ startedAt[i] < Len(calls)
           /\ calls[startedAt[i]].ret = "token"
           /\ calls[startedAt[i] + 1].ret = "token"


(***************************************************************************)
(* Claims about the rule table of the grammar.                             *)
(***************************************************************************)
\* The iterator it is the one that a search for the rule of ID i is to
\* give: of a rule whose ID is i, or end() when the table has none.
FindsRule(data, i, it) ==
    IF HasRule(data, i)
    THEN it <= Len(data.grammarTable) /\ data.grammarTable[it].ID = i
    ELSE it = Len(data.grammarTable) + 1

\* C21: after any insertRule, removeRule and sort calls, getRule( i ) gives
\* an iterator to the rule whose ID is i, or end() when there is no rule
\* of that ID.
C21_GetRuleFindsTheRule ==
    \A i \in RuleIDs : \A it \in getRuleResults(gdata, i) : FindsRule(gdata, i, it)


(***************************************************************************)
(* Claims about the steps of the tokenizer.                                *)
(***************************************************************************)
\* The step pushes a token that is not the END_OF_STREAM token.
TokenPushed ==
    /\ Len(pushed') = Len(pushed) + 1
    /\ pushed'[Len(pushed')].id # END_OF_STREAM_TOKEN

\* The step is one of producer p.
Stepping(p) == pc'[p] # pc[p] \/ loc'[p] # loc[p]

\* The offset at which the match of the token that p pushes ended:
\* runner_usingTokenGetter pushes what the token getter has just accepted,
\* and the getter left the cursor at the end of the match;
\* runner_dedicatedIteration keeps the end in tokEnd.
MatchEnd(p) == IF pc[p] = "put" THEN bufferPointer ELSE loc'[p].tokEnd

\* C22: a match of an ordinary group that ends at bufferEnd while the
\* stream has not ended is not emitted as a token: whenever a runner
\* pushes a token, its match ended before bufferEnd or the stream has
\* ended.
C22_NoTokenFromOpenMatch ==
    [][TokenPushed =>
          \A p \in Producers :
              Stepping(p) => (MatchEnd(p) < bufferEnd \/ endOfStream)]_vars

\* The stream is one word that fills the first window: its first match
\* ended at bufferEnd with the stream not ended, and it was pushed whole
\* after the fetch that found the end of the stream.
C22_Witness ==
    /\ pushed # <<>>
    /\ Len(rdr.data) = BUFFER_SIZE
    /\ pushed[1].data = rdr.data

IsNotSentinel(tok) == tok.id # END_OF_STREAM_TOKEN

\* The tokens that the runner has pushed, in order.
PushedTokens == SelectSeq(pushed, IsNotSentinel)

\* C23: a match of an ordinary group that is accepted emits exactly one
\* token, with the id of the group and the matched text, and the cursor
\* moves to the end of the match, so that no match is scanned again: the
\* tokens pushed after one start() call are the first tokens of the
\* stream, each one once and in order.
C23_AcceptEmitsOneToken ==
    (useBlockingQueue /\ startCalls <= 1) =>
        StartsWith(InputTokens(rdr.data), PushedTokens)

\* The span is white space.
IsSpaceSpan(str) == str # <<>> /\ \A i \in 1..Len(str) : str[i] \in SpaceChars

\* The token holds no white space.
NoSpaceIn(tok) == \A i \in 1..Len(tok.data) : tok.data[i] \notin SpaceChars

\* The white space bytes of the stream, and those passed so far.
SpacesIn(data) == Cardinality({i \in 1..Len(data) : data[i] \in SpaceChars})
SpacesPassed == Len(Flatten(SelectSeq(consumed, IsSpaceSpan)))

\* C24: a match of the white space group produces no token and moves the
\* cursor past the match, also when it ends at bufferEnd: no token pushed
\* or returned holds white space, and after one start() call no white
\* space of the stream has been passed more than once.
C24_WhitespaceIsSkippedOnce ==
    /\ \A i \in 1..Len(pushed) : NoSpaceIn(pushed[i])
    /\ \A i \in 1..Len(calls) : NoSpaceIn(calls[i].tok)
    /\ (useBlockingQueue /\ startCalls <= 1) => SpacesPassed <= SpacesIn(rdr.data)


(***************************************************************************)
(* Claims about the buffer.                                                *)
(***************************************************************************)
\* The runner of producer p is not inside a round of its loop: it is at
\* the top of a round of while( ++bufferUpdates ), or not in the loop.
BetweenRounds(p) ==
    pc[p] = "match" =>
        loc[p].top = <<rdr.pos, buffer, bufferPointer, bufferEnd,
                       loc[p].bufferWasExtended>>

\* 0 <= cursor <= fillEnd <= capacity
BufferInOrder ==
    /\ 0 <= bufferPointer
    /\ bufferPointer <= bufferEnd
    /\ bufferEnd <= Len(buffer)

\* C25: after every getNextToken() call and after every round of the
\* loop of a runner, the offsets of bufferPointer and bufferEnd in the
\* buffer are in order and inside the buffer, also after the buffer was
\* grown and after it was reset to BUFFER_SIZE.
C25_BufferInvariant ==
    (\A p \in Producers : BetweenRounds(p)) => BufferInOrder

\* What updateBuffer gave, u, for the lexer l: nothing was read and
\* nothing changed / a read of no bytes has set endOfStream.
NothingDone(u, l) == ~u.ret /\ u.lex = l
EndMarked(u) == ~u.ret => u.lex.endOfStream

\* In this state an updateBuffer call with any start offset does nothing
\* when endOfStream is set, and sets it when it reads no bytes.
EndIsFinal ==
    \A start \in 0..Len(buffer) :
        IF endOfStream THEN NothingDone(updateBuffer(Lex, start), Lex)
        ELSE EndMarked(updateBuffer(Lex, start))

\* C26: the end of the input is permanent: a read of no bytes sets
\* endOfStream, no step clears it or reads the stream after it is set, and
\* an updateBuffer call with any start offset then changes nothing.
C26_EndOfInputIsPermanent ==
    [][/\ EndIsFinal
       /\ EndIsFinal'
       /\ endOfStream => (endOfStream' /\ rdr' = rdr)]_vars

\* getNextToken() was called again after the call that found the end of
\* the stream, and tokens had been returned before.
C26_Witness ==
    /\ endOfStream
    /\ Delivered # <<>>
    /\ Cardinality(Refusals) >= 2

\* The dedicated runner p has accepted a token from a grown buffer (lines
\* 567-582) and has not fetched yet (line 652).
GrownAccepted(p) == pc[p] = "match" /\ loc[p].reBufferNeeded = REFETCH_NEEDED

\* The token getter of runner p has returned a token longer than the
\* nominal buffer (lines 338-363), which is not pushed yet.
GrownGot(p) ==
    /\ pc[p] = "put"
    /\ loc[p].tt >= 0
    /\ Len(loc[p].tok.data) > BUFFER_SIZE

\* The last n bytes read from the stream.
LastRead(n) == SubSeq(rdr.data, rdr.pos - n + 1, rdr.pos)

\* The buffer has its nominal size and holds the n bytes that were read
\* after the token at its start, with the cursor on them.
RemainderKept(n) ==
    /\ Len(buffer) = BUFFER_SIZE
    /\ bufferPointer = 0
    /\ bufferEnd = n
    /\ n <= BUFFER_SIZE
    /\ SubSeq(buffer, 1, n) = LastRead(n)

\* C27: after a token for which the buffer was grown has been accepted, and
\* before the next fetch, the buffer has BUFFER_SIZE bytes again and the
\* bytes that followed the token are at its start, in order, with cursor = 0
\* and fillEnd = their count.
C27_RemainderKeptAfterShrink ==
    \A p \in Producers :
        /\ GrownAccepted(p) => RemainderKept(loc[p].fetchOffset)
        /\ GrownGot(p) => RemainderKept(bufferEnd)

\* A token getter call has just returned a token and left the cursor at
\* the start of the buffer: it reset a grown buffer (lines 338-363; the
\* other accept, line 373, leaves the cursor behind the token).
GetterShrunk ==
    /\ bufferPointer = 0
    /\ \/ /\ ~useBlockingQueue
          /\ calls # <<>>
          /\ calls[Len(calls)].ret = "token"
       \/ \E p \in Producers : pc[p] = "put" /\ loc[p].tt >= 0

\* C28: whenever a grown buffer is shrunk after its token is accepted, the
\* bytes that remain after the token end are fewer than BUFFER_SIZE, and
\* their copy does not go beyond the new buffer.
C28_RemainderFits ==
    /\ ~memFault
    /\ GetterShrunk => bufferEnd < BUFFER_SIZE
    /\ \A p \in Producers : GrownAccepted(p) => loc[p].fetchOffset < BUFFER_SIZE

\* A grown buffer was shrunk with three bytes left after its token, and
\* more of the stream was still to be read.
C28_Witness ==
    \E p \in Producers :
        /\ GrownAccepted(p)
        /\ loc[p].fetchOffset = 3
        /\ Len(rdr.data) - rdr.pos >= 2

\* The buffer new holds the open token old[from, from + len) at its
\* start, and has grown by BUFFER_SIZE/2 exactly when the token is longer
\* than old less BUFFER_SIZE/2.
TokenKept(new, old, from, len) ==
    /\ SubSeq(new, 1, len) = SubSeq(old, from + 1, from + len)
    /\ Len(new) = IF len > Len(old) - BUFFER_SIZE \div 2
                  THEN Len(old) + BUFFER_SIZE \div 2
                  ELSE Len(old)

\* The stream went from position pos to position now, and the bytes read
\* are in buf from offset len on.
TailFetched(buf, len, pos, now) ==
    SubSeq(buf, len + 1, len + (now - pos)) = SubSeq(rdr.data, pos + 1, now)

\* The token getter is about to be called.
GetterCalled ==
    \/ ~useBlockingQueue /\ Cardinality(Refusals) < MaxExtraCalls
    \/ \E p \in Producers : pc[p] = "get"

\* The match m is the first one of a token getter call, and is held open
\* (lines 308-314).
HeldOpen(m) ==
    /\ GetterCalled
    /\ bufferPointer < bufferEnd
    /\ ~endOfStream
    /\ m.found
    /\ m.group - 1 # spaceRuleIndex
    /\ bufferPointer + m.position + m.length >= bufferEnd

\* Lines 400-460 for the held match m: rb is what the rebuffering gave,
\* and u what the fetch after it gave.
GetterReBuffers(m, rb, u) ==
    /\ TokenKept(rb.lex.buffer, buffer, bufferPointer + m.position, m.length)
    /\ rb.fetchOffset = m.length
    /\ TokenKept(u.lex.buffer, buffer, bufferPointer + m.position, m.length)
    /\ TailFetched(u.lex.buffer, m.length, rdr.pos, u.lex.rdr.pos)
    /\ u.ret \/ rb.extended

GetterReBuffersWell(m) ==
    HeldOpen(m) => GetterReBuffers(m, ReBuffer(Lex, m),
                                   updateBuffer(ReBuffer(Lex, m).lex, m.length))

\* The dedicated runner p has found its match open (lines 532-543) and
\* takes the step of lines 607-667.
RunnerReBuffers(p) ==
    /\ pc[p] = "match"
    /\ loc[p].reBufferNeeded = TOKEN_AT_THE_END
    /\ (pc'[p] # pc[p] \/ loc'[p] # loc[p])

RunnerReBuffersWell(p) ==
    RunnerReBuffers(p) =>
        /\ TokenKept(buffer', buffer, bufferPointer, loc[p].tokEnd - bufferPointer)
        /\ TailFetched(buffer', loc[p].tokEnd - bufferPointer, rdr.pos, rdr'.pos)
        /\ pc'[p] = "match"
        /\ bufferPointer' = 0
        /\ loc'[p].it = 0

\* C29: rebuffering keeps the open token: its L bytes are at offsets
\* [0, L) afterwards, the buffer has grown by BUFFER_SIZE/2 exactly when
\* L > capacity - BUFFER_SIZE/2, the new data is fetched at offset L
\* without touching [0, L), and matching resumes at offset 0.
C29_ReBufferKeepsOpenToken ==
    [][/\ GetterReBuffersWell(regex_search(buffer, bufferPointer, bufferEnd))
       /\ \A p \in Producers : RunnerReBuffersWell(p)]_vars

\* The names of the tags whose rules are not token rules: the white space
\* rule, and the tags that reglex.cpp or the grammar format treat apart.
ApartNames == {"regex_ignore", "regex_delim", "ignore", "delim"}

IsTokenID(id) == TagName(gdata, id) \notin ApartNames
IsTokenRule(rule) == IsTokenID(rule.ID)

\* The IDs of the rules, in the order of the rules.
IDsOf(rules) == [k \in 1..Len(rules) |-> rules[k].ID]

\* C30: every rule of the grammar table other than the white space rule
\* has exactly one capture group in the master pattern and exactly one
\* entry, its tag ID, in tokenTypeIDs, in the order of the rule table,
\* whether or not a rule compiled before it references it.
C30_OneGroupPerRule ==
    Compiled =>
        /\ SelectSeq(lexics.tokenTypeIDs, IsTokenID)
              = IDsOf(SelectSeq(gdata.grammarTable, IsTokenRule))
        /\ Len(lexics.starts) = Len(lexics.tokenTypeIDs)


(***************************************************************************)
(* Claims about the expansion of rule references.                          *)
(***************************************************************************)
\* What the collector gives for a rule when it starts from the set of IDs
\* visited.
Collected(data, visited, rule) ==
    collectRegexStringFromGTokens_priv(data,
        [str |-> <<>>, idStack |-> visited, ret |-> TRUE], rule, FALSE)

RECURSIVE VisitedBefore(_, _)
\* The set ignoredTags that the loop of lines 244-277 hands to the
\* collector for the k-th rule of the table.
VisitedBefore(data, k) ==
    IF k = 1 THEN {}
    ELSE Collected(data, VisitedBefore(data, k - 1), data.grammarTable[k - 1]).idStack

\* The collector gives for the k-th rule what it gives when nothing was
\* expanded before.
ExpandedAlike(data, k) ==
    /\ Collected(data, VisitedBefore(data, k), data.grammarTable[k]).ret
    /\ Collected(data, VisitedBefore(data, k), data.grammarTable[k]).str
          = Fragment(data, data.grammarTable[k])

\* C31: cycle detection does not leak across branches: the fragment built
\* for a rule, and for a rule it references, does not depend on the rules
\* that were expanded before it elsewhere.
C31_NoLeakAcrossBranches ==
    Compiled => \A k \in 1..Len(gdata.grammarTable) : ExpandedAlike(gdata, k)

\* The rule of a tag.
RuleOf(data, id) ==
    data.grammarTable[CHOOSE k \in 1..Len(data.grammarTable) : data.grammarTable[k].ID = id]

\* The rule has one option made of one literal pattern.
IsLeaf(rule) ==
    /\ Len(rule.options) = 1
    /\ Len(rule.options[1].children) = 1
    /\ rule.options[1].children[1].type = REGEX_STRING

RECURSIVE buildFragment(_, _, _)
RECURSIVE OptionText(_, _, _, _)
RECURSIVE OptionsJoined(_, _, _)

\* The tokens of an option from the j-th on, one after the other: literal
\* text as it is, and the fragment of the rule of a referenced tag.
OptionText(data, tokens, j, multi) ==
    IF j > Len(tokens) THEN <<>>
    ELSE (IF tokens[j].type = REGEX_STRING THEN tokens[j].data
          ELSE buildFragment(data, RuleOf(data, tokens[j].id), multi))
         \o OptionText(data, tokens, j + 1, multi)

\* The options from the k-th on, joined by |.
OptionsJoined(data, options, k) ==
    IF k > Len(options) THEN <<>>
    ELSE (IF k > 1 THEN <<"|">> ELSE <<>>)
         \o OptionText(data, options[k].children, 1, Len(options) > 1)
         \o OptionsJoined(data, options, k + 1)

\* The fragment of a rule as the shape rule tells it; nested says that the
\* rule is referenced from a rule of several options.
buildFragment(data, rule, nested) ==
    IF IsLeaf(rule) /\ ~nested
    THEN rule.options[1].children[1].data
    ELSE <<"(", "?", ":">> \o OptionsJoined(data, rule.options, 1) \o <<")">>

\* Every reference leads to a rule, and no rule leads to itself.
WellFounded(data) == ~Dangling(data) /\ ~SelfReferent(data)

Alternatives(lx) == lx.starts \o <<lx.spaceStart, lx.errorStart>>

\* The offset of the parenthesis that closes the k-th alternative.
AltEnd(lx, k) ==
    IF k < Len(Alternatives(lx)) THEN Alternatives(lx)[k + 1] - 2
    ELSE Len(lx.fullLanguageRegex)

\* The sub-matches m[i] that are not empty when the k-th alternative has
\* matched: its own group and the groups written inside its pattern (the
\* patterns of the grammars repeat their groups at least once).
SubMatches(lx, k) ==
    {GroupNumber(lx.fullLanguageRegex, p) :
        p \in {q \in Alternatives(lx)[k]..AltEnd(lx, k) :
                   OpensGroup(lx.fullLanguageRegex, q)}}

\* Line 294-295: the first i of 1..m.size()-1 with m[i].length() > 0.
FirstSubMatch(lx, k) ==
    CHOOSE i \in SubMatches(lx, k) : \A j \in SubMatches(lx, k) : i <= j

\* Lines 302-331: what the lexer does with a match whose first sub-match
\* is m[i].  Reading tokenTypeIDs beyond its end is undefined.
Classified(lx, i) ==
    IF i - 1 = lx.spaceRuleIndex THEN [kind |-> "space"]
    ELSE IF lx.useFallbackErrorRule /\ i - 1 = lx.errorRuleIndex THEN [kind |-> "error"]
    ELSE IF i <= Len(lx.tokenTypeIDs) THEN [kind |-> "token", id |-> lx.tokenTypeIDs[i]]
    ELSE [kind |-> "undefined"]

\* What the k-th alternative was declared as.
Declared(lx, k) ==
    IF k <= Len(lx.tokenTypeIDs) THEN [kind |-> "token", id |-> lx.tokenTypeIDs[k]]
    ELSE IF k = Len(lx.tokenTypeIDs) + 1 THEN [kind |-> "space"]
    ELSE [kind |-> "error"]

\* C33: for every match exactly one capture group is not empty, and the
\* match is classified as the alternative that matched was declared: a
\* token of the rule's tag ID, white space, or the error.
C33_OneGroupClassifies ==
    Compiled =>
        \A k \in 1..Len(Alternatives(lexics)) :
            /\ Cardinality(SubMatches(lexics, k)) = 1
            /\ Classified(lexics, FirstSubMatch(lexics, k)) = Declared(lexics, k)


(***************************************************************************)
(* Claims about the two threads of a lexer with the queue.                 *)
(***************************************************************************)
\* The consumer takes a step of getNextToken() / its call returns.
ConsumerMoves == pc'[Consumer] # pc[Consumer]
ConsumerReturns == useBlockingQueue /\ calls' # calls

\* C34: with the queue the consumer's getNextToken() reads and writes the
\* queue only: its steps leave buffer, bufferPointer, bufferEnd,
\* endOfStream and running as they are, and every call returns with
\* an element it has popped off the queue, so that what it returns is
\* decided by the queue and not by the flags of the producer.
C34_ConsumerUsesQueueOnly ==
    [][/\ ConsumerMoves => UNCHANGED <<lexVars, running>>
       /\ ConsumerReturns => (bQueue # <<>> /\ bQueue' = Tail(bQueue))]_vars


(***************************************************************************)
(* Claims about the error of the lexer without the queue.                  *)
(***************************************************************************)
\* The match m is the offending one: it starts at the cursor and is a
\* match of the fallback group.
Offending(m) == m.found /\ m.position = 0 /\ m.group - 1 = errorRuleIndex

\* C35: a lexical error is fatal and is not skipped over: after a
\* getNextToken() call without the queue has raised it, the cursor is at
\* the start of the offending match, and every later call raises the error
\* again and returns no token.
C35_ErrorIsNotSkipped ==
    ~useBlockingQueue =>
        /\ \A i \in Throws : \A j \in i..Len(calls) : j \in Throws
        /\ Throws # {} => Offending(regex_search(buffer, bufferPointer, bufferEnd))

\* Tokens were returned, then the error was raised, and the next call
\* raised it again with bytes of the stream behind the offending one.
C35_Witness ==
    /\ ~useBlockingQueue
    /\ Cardinality(Throws) >= 2
    /\ Delivered # <<>>
    /\ bufferEnd - bufferPointer >= 2


(***************************************************************************)
(* Claims about the two runners.                                           *)
(***************************************************************************)
RECURSIVE GetterEnds(_)
\* How runner_usingTokenGetter ends on the lexer l (lines 676-690): by an
\* exception of the token getter, or by a return after the getter has
\* reported no token.
GetterEndsAfter(r) ==
    IF r.threw THEN "throw"
    ELSE IF r.ret < 0 THEN "return"
    ELSE GetterEnds(r.lex)

GetterEnds(l) == GetterEndsAfter(getNextTokenPriv_Regexed(l))

\* The runner of the one start() call has ended, and how.
RunnerEnded == startThrew \/ Sentinels # {}
RunnerEnd == IF startThrew THEN "throw" ELSE "return"

\* C36: the two runners are equivalent: runner_dedicatedIteration pushes
\* the tokens that runner_usingTokenGetter pushes for the same stream, in
\* the same order and number, and ends as it ends.
C36_RunnersAgree ==
    (useBlockingQueue /\ useDedicatedLoopyTokenizer /\ startCalls <= 1) =>
        /\ StartsWith(TokensOf(Fresh(rdr.data, BUFFER_SIZE)), PushedTokens)
        /\ RunnerEnded =>
              /\ PushedTokens = TokensOf(Fresh(rdr.data, BUFFER_SIZE))
              /\ RunnerEnd = GetterEnds(Fresh(rdr.data, BUFFER_SIZE))

\* The dedicated runner p has scanned its window to the end with no match
\* left open, and takes the step of lines 651-667.
WindowDone(p) ==
    /\ pc[p] = "match"
    /\ loc[p].reBufferNeeded = 0
    /\ ~IteratorMatch(p).found
    /\ (pc'[p] # pc[p] \/ loc'[p] # loc[p])

\* The window that is scanned next holds bytes that were read by this
\* step, and no others.
FreshWindow ==
    /\ rdr'.pos > rdr.pos
    /\ SubSeq(buffer', bufferPointer' + 1, bufferEnd')
          = SubSeq(rdr.data, rdr.pos + 1, rdr'.pos)

\* C37: the producer does not scan an input span twice: when the dedicated
\* runner has scanned a window to its end without rebuffering, its next
\* round fetches new data and scans only bytes that were not scanned
\* before, or the runner ends.
C37_WindowScannedOnce ==
    [][\A p \in Producers :
          WindowDone(p) => (pc'[p] = "sentinel" \/ FreshWindow)]_vars


(***************************************************************************)
(* Claims about the fetch that follows a rebuffering.                      *)
(***************************************************************************)
\* The fetch at offset len into the buffer new is in range: the offset is
\* below the capacity, so line 177 does not reset it and at least one byte
\* is asked for, and the open token old[from, from + len) is still at the
\* start of the buffer after the fetch.
FetchInRange(new, old, from, len) ==
    /\ len < Len(new)
    /\ SubSeq(new, 1, len) = SubSeq(old, from + 1, from + len)

GetterFetchInRange(m) ==
    HeldOpen(m) =>
        /\ ReBuffer(Lex, m).fetchOffset < Len(ReBuffer(Lex, m).lex.buffer)
        /\ FetchInRange(updateBuffer(ReBuffer(Lex, m).lex, m.length).lex.buffer,
                        buffer, bufferPointer + m.position, m.length)

\* C38: the fetch offset handed to updateBuffer after a rebuffering is
\* below the capacity of the buffer, so its correction to 0 does not
\* happen, at least one byte can be asked for, and the fetch does not
\* overwrite the open token at the start of the buffer.
C38_FetchOffsetInRange ==
    [][/\ GetterFetchInRange(regex_search(buffer, bufferPointer, bufferEnd))
       /\ \A p \in Producers :
             RunnerReBuffers(p) =>
                 FetchInRange(buffer', buffer, bufferPointer,
                              loc[p].tokEnd - bufferPointer)]_vars

\* The dedicated runner has rebuffered a word twice: the buffer has grown
\* to BUFFER_SIZE + 2 * (BUFFER_SIZE / 2) bytes and is full of the word.
C38_Witness ==
    /\ useDedicatedLoopyTokenizer
    /\ Len(buffer) = BUFFER_SIZE + 2 * (BUFFER_SIZE \div 2)
    /\ bufferEnd > BUFFER_SIZE + (BUFFER_SIZE \div 2)
    /\ \E p \in Producers : pc[p] = "match" /\ loc[p].bufferWasExtended


(***************************************************************************)
(* Claims about the termination of the compilation.                        *)
(***************************************************************************)
\* The recursion that the loop of lines 244-277 starts for the k-th rule.
Expansion(data, k) ==
    ExpandRule(data,
               [idStack |-> VisitedBefore(data, k), deepest |-> 0, reentered |-> FALSE],
               data.grammarTable[k], FALSE, 0, {})

\* C39: compilation terminates for every grammar, also for one with a
\* rule that references itself directly or through others: the collector
\* never expands a rule that is on its current expansion path, and its
\* recursion is never deeper than the number of rules.
C39_RecursionIsBounded ==
    \A k \in 1..Len(gdata.grammarTable) :
        /\ ~Expansion(gdata, k).reentered
        /\ Expansion(gdata, k).deepest < Len(gdata.grammarTable)

\* A grammar of three rules that reference each other in a ring has been
\* compiled, with a recursion through all three.
C39_Witness ==
    /\ Compiled
    /\ Len(gdata.grammarTable) = 3
    /\ \A k \in 1..3 : Reaches(gdata, gdata.grammarTable[k].ID, gdata.grammarTable[k].ID, 3)
    /\ \E k \in 1..3 : Expansion(gdata, k).deepest = 2


(***************************************************************************)
(* Claims about start() run to its end before the first getNextToken().    *)
(***************************************************************************)
\* The thread of start() is at a push of lines 683-688 or of line 714.
AtPush(p) == pc[p] = "sentinel" \/ (pc[p] = "put" /\ loc[p].tt >= 0)

\* The thread can take that step now.
CanPush(p) == ENABLED (PushEndOfStream(p) \/ RunnerPut(p))

\* start() was called once, before any getNextToken() call, and returned.
StartRanFirst ==
    /\ startCalls = 1
    /\ startedAt = <<0>>
    /\ pc["p1"] = "idle"
    /\ ~startThrew
    /\ Sentinels # {}

\* The i-th getNextToken() call returned the i-th token pushed: true with
\* a token, false with the END_OF_STREAM token.
ReturnedPushed(i) ==
    /\ calls[i].tok = pushed[i]
    /\ calls[i].ret = IF pushed[i].id = END_OF_STREAM_TOKEN THEN "false" ELSE "token"

\* C40: the producer never waits for the consumer: a push is possible
\* whatever the queue holds, and the thread of start() that has come to a
\* push can take it with no getNextToken() call under way, so start() can
\* run to its end before the first getNextToken() call; the calls that follow
\* then return the pushed tokens in the order of the pushes, each with
\* true, and the END_OF_STREAM token, pushed last, with false, and none of
\* them is left waiting.
C40_ProducerNeverWaits ==
    /\ Len(pushed) < MaxPushed =>
          /\ ENABLED Push([id |-> END_OF_STREAM_TOKEN, data |-> <<>>])
          /\ AtPush("p1") => CanPush("p1")
    /\ StartRanFirst =>
          /\ Sentinels = {Len(pushed)}
          /\ \A i \in 1..Len(calls) : i <= Len(pushed) => ReturnedPushed(i)
          /\ Len(calls) <= Len(pushed) =>
                bQueue = SubSeq(pushed, Len(calls) + 1, Len(pushed))

\* start() pushed two tokens and the END_OF_STREAM token and returned, and
\* three getNextToken() calls have returned after that.
C40_Witness ==
    /\ StartRanFirst
    /\ Len(pushed) = 3
    /\ Len(calls) = 3
    /\ calls[3].ret = "false"
    /\ bQueue = <<>>

=============================================================================
